---- MODULE Spec2Model ----
(***************************************************************************)
(* Sasabot: the M-Pesa payment state machine of realtime/payment_tools.py  *)
(* over the JSON record store of utils/simple_db.py.                       *)
(*                                                                         *)
(* Encoding of Python values:                                              *)
(*   - a str is a sequence of one-character strings, so that startswith,   *)
(*     slicing and replace are computed and not assumed;                   *)
(*   - an optional value is <<>> for None (or a missing key) and <<v>> for *)
(*     the value v; None and "" are both falsy and both <<>> for a str;    *)
(*   - datetime.now().isoformat() is the one instant datetime_now: no      *)
(*     handler reads a timestamp back, it only tells set from unset.       *)
(*                                                                         *)
(* Specifications:                                                         *)
(*   Spec        the payment handlers, called one after another;           *)
(*   SpecPhone   validate_kenyan_phone on every short str;                 *)
(*   SpecRace    complete and cancel on one payment, their file reads and  *)
(*               writes interleaved;                                       *)
(*   SpecCatalog the vendor's product handlers of realtime/vendor_tools.py *)
(*               over products.json;                                       *)
(*   SpecEdits   add, update and delete of products with clashing names    *)
(*               and partial updates;                                      *)
(*   SpecListing show_products_handler and delete_product_handler;         *)
(*   SpecPrices  bulk_update_prices with add and update;                   *)
(*   SpecOrders  place_order_handler of realtime/customer_tools.py and     *)
(*               update_stock_handler;                                     *)
(*   SpecValidator the validators of realtime/validation_middleware.py;    *)
(*   SpecPlacing orders and stock corrections alone;                       *)
(*   SpecWrites  initiate, complete and cancel when a save_json can fail;  *)
(*   SpecInitiateRace initiate for different orders, their file reads and  *)
(*               writes interleaved;                                       *)
(*   SpecCheckout an order placed and then paid with its stored phone.     *)
(***************************************************************************)
EXTENDS Integers, Sequences, FiniteSets, TLC

VARIABLES
    payments,   \* payments.json: the list of payment records, in store order
    orders,     \* orders.json: the list of order records, in store order
    op,         \* the handler call that ran last, with its arguments
    result,     \* the dict that call returned
    phone_in,   \* phone check: the str handed to validate_kenyan_phone
    phone_out,  \* phone check: what the first application did
    phone_again, \* phone check: what applying it to the first result did
    calls,      \* interleaving: each concurrent call's position and locals
    products,   \* products.json: the list of product records, in store order
    request,    \* catalogue: the vendor call that ran last, with its arguments
    reply       \* catalogue: what that call returned

vars == <<payments, orders, op, result, phone_in, phone_out, phone_again, calls, products, request, reply>>

store_vars == <<payments, orders, op, result>>

phone_vars == <<phone_in, phone_out, phone_again>>

race_vars == <<calls>>

catalog_vars == <<products, request, reply>>

-----------------------------------------------------------------------------
(* Bounds of the model                                                     *)

MaxPayments == 2

MaxPhoneLen == 5

MaxCallers == 2

MaxProducts == 4

MaxCalls == 2

-----------------------------------------------------------------------------
(* Python str and Optional helpers                                         *)

None == <<>>

Some(v) == <<v>>

IsNone(x) == x = <<>>

StartsWith(s, prefix) ==
    /\ Len(s) >= Len(prefix)
    /\ SubSeq(s, 1, Len(prefix)) = prefix

NotSpaceOrHyphen(c) == c \notin {" ", "-"}

RemoveSpacesAndHyphens(s) == SelectSeq(s, NotSpaceOrHyphen)

DigitChars == <<"0", "1", "2", "3", "4", "5", "6", "7", "8", "9">>

DigitChar(d) == DigitChars[d + 1]

DigitVal(c) == CHOOSE d \in 0..9 : DigitChars[d + 1] = c

RECURSIVE ParseInt(_)
ParseInt(s) ==
    IF Len(s) = 0 THEN 0
    ELSE 10 * ParseInt(SubSeq(s, 1, Len(s) - 1)) + DigitVal(s[Len(s)])

RECURSIVE Decimal(_)
Decimal(n) ==
    IF n < 10 THEN <<DigitChar(n)>>
    ELSE Decimal(n \div 10) \o <<DigitChar(n % 10)>>

RECURSIVE ZeroPad(_, _)
ZeroPad(s, width) == IF Len(s) >= width THEN s ELSE ZeroPad(<<"0">> \o s, width)

PAY == <<"P", "A", "Y">>

FormatPaymentId(n) == PAY \o ZeroPad(Decimal(n), 3)

SetMax(S) == IF S = {} THEN 0 ELSE CHOOSE m \in S : \A x \in S : x <= m

-----------------------------------------------------------------------------
(* MPesaSimulator                                                          *)

PROCESSING_TIME_MIN == 15

PROCESSING_TIME_MAX == 30

\* The random draws. The delay, the transaction id and the failure reason are
\* stored and returned but never read or compared by any handler, so each is
\* drawn from a one-element set: a representative of randint(MIN, MAX), of the
\* 10-character codes and of the four reasons. The outcome, which decides the
\* branch taken, is drawn from both of its values.
get_processing_delay ==
    { CHOOSE d \in PROCESSING_TIME_MIN..PROCESSING_TIME_MAX : TRUE }

generate_transaction_id == {"QK7A9B2C3D"}

simulate_payment_outcome == BOOLEAN

failure_reasons == {"Network timeout"}

datetime_now == "2025-06-01T12:00:00"

Raise == [raised |-> TRUE, value |-> None]

Return(v) == [raised |-> FALSE, value |-> v]

\* validate_kenyan_phone without line 40, the removal of spaces and hyphens.
validate_kenyan_phone_unstripped(phone) ==
    IF IsNone(phone) THEN Raise
    ELSE IF StartsWith(phone, <<"0", "7">>) \/ StartsWith(phone, <<"0", "1">>)
            THEN Return(<<"+", "2", "5", "4">> \o SubSeq(phone, 2, Len(phone)))
         ELSE IF StartsWith(phone, <<"2", "5", "4">>)
            THEN Return(<<"+">> \o phone)
         ELSE IF StartsWith(phone, <<"+", "2", "5", "4">>)
            THEN Return(phone)
         ELSE Raise

validate_kenyan_phone(phone) ==
    IF IsNone(phone) THEN Raise
    ELSE LET cleaned == RemoveSpacesAndHyphens(phone) IN
         IF StartsWith(cleaned, <<"0", "7">>) \/ StartsWith(cleaned, <<"0", "1">>)
            THEN Return(<<"+", "2", "5", "4">> \o SubSeq(cleaned, 2, Len(cleaned)))
         ELSE IF StartsWith(cleaned, <<"2", "5", "4">>)
            THEN Return(<<"+">> \o cleaned)
         ELSE IF StartsWith(cleaned, <<"+", "2", "5", "4">>)
            THEN Return(cleaned)
         ELSE Raise

-----------------------------------------------------------------------------
(* JSONDatabase: orders                                                    *)

OrderIndex(ords, order_id) ==
    IF \E i \in 1..Len(ords) : ords[i].id = order_id
       THEN CHOOSE i \in 1..Len(ords) :
                /\ ords[i].id = order_id
                /\ \A j \in 1..(i - 1) : ords[j].id # order_id
       ELSE 0

get_order_by_id(ords, order_id) ==
    IF OrderIndex(ords, order_id) = 0 THEN None
    ELSE Some(ords[OrderIndex(ords, order_id)])

update_order_status(ords, order_id, status, t) ==
    LET i == OrderIndex(ords, order_id) IN
    IF i = 0 THEN ords
    ELSE [ords EXCEPT ![i] =
            [@ EXCEPT !.status = status,
                      !.updated_at = t,
                      !.confirmed_at = IF status = "confirmed" THEN Some(t) ELSE @]]

\* The order dict place_order_handler builds and add_order stores.
new_order(order_id, customer_phone, grand_total, t) ==
    [id |-> order_id,
     customer_phone |-> customer_phone,
     grand_total |-> grand_total,
     status |-> "pending",
     payment_status |-> "pending",
     payment_id |-> None,
     updated_at |-> t,
     confirmed_at |-> None,
     payment_completed_at |-> None]

-----------------------------------------------------------------------------
(* The dicts the handlers return                                           *)

NoResult ==
    [success |-> FALSE, error_type |-> "", payment_id |-> None,
     payment_success |-> None, transaction_id |-> None,
     existing_payment |-> None, status |-> "", data |-> None]

Failure(error_type) == [NoResult EXCEPT !.error_type = error_type]

Outcome(pays, ords, res) == [payments |-> pays, orders |-> ords, result |-> res]

-----------------------------------------------------------------------------
(* validate_payment_request                                                *)

\* The paid check reading the order's status instead of its payment_status.
order_already_paid_by_status(order) == order.status = "completed"

order_already_paid(order) == order.payment_status = "completed"

phone_mismatch(order_phone, normalized_phone) ==
    ~IsNone(order_phone) /\ order_phone # normalized_phone

Invalid(error_type, existing_payment) ==
    [valid |-> FALSE, error_type |-> error_type,
     existing_payment |-> existing_payment,
     order |-> None, normalized_phone |-> None]

validate_payment_request(ords, order_id, customer_phone) ==
    LET order == get_order_by_id(ords, order_id) IN
    IF IsNone(order) THEN Invalid("order_not_found", None)
    ELSE IF order_already_paid(order[1])
        THEN Invalid("already_paid", order[1].payment_id)
    ELSE LET normalized == validate_kenyan_phone(customer_phone) IN
         IF normalized.raised THEN Invalid("invalid_phone", None)
         ELSE IF phone_mismatch(order[1].customer_phone, normalized.value)
             THEN Invalid("phone_mismatch", None)
         ELSE [valid |-> TRUE, error_type |-> "", existing_payment |-> None,
               order |-> order, normalized_phone |-> normalized.value]

-----------------------------------------------------------------------------
(* initiate_mpesa_payment_handler                                          *)

existing_ids(pays) ==
    { ParseInt(SubSeq(pays[i].payment_id, 4, Len(pays[i].payment_id))) :
        i \in { j \in 1..Len(pays) : StartsWith(pays[j].payment_id, PAY) } }

\* The id made of the largest stored number itself.
new_payment_id_reusing_largest(pays) == FormatPaymentId(SetMax(existing_ids(pays)))

new_payment_id(pays) == FormatPaymentId(SetMax(existing_ids(pays)) + 1)

\* The record built with the amount left at its default.
payment_record_without_amount(payment_id, order_id, normalized_phone, order, delay, t) ==
    [payment_id |-> payment_id,
     order_id |-> order_id,
     customer_phone |-> normalized_phone,
     amount |-> 0,
     method |-> "mpesa",
     status |-> "pending",
     transaction_id |-> None,
     initiated_at |-> t,
     completed_at |-> None,
     mpesa_phone |-> normalized_phone,
     merchant_reference |-> order_id,
     processing_delay |-> delay,
     failure_reason |-> None]

payment_record(payment_id, order_id, normalized_phone, order, delay, t) ==
    [payment_id |-> payment_id,
     order_id |-> order_id,
     customer_phone |-> normalized_phone,
     amount |-> order.grand_total,
     method |-> "mpesa",
     status |-> "pending",
     transaction_id |-> None,
     initiated_at |-> t,
     completed_at |-> None,
     mpesa_phone |-> normalized_phone,
     merchant_reference |-> order_id,
     processing_delay |-> delay,
     failure_reason |-> None]

initiate_mpesa_payment_handler(pays, ords, order_id, customer_phone, delay, t) ==
    LET order0 == get_order_by_id(ords, order_id)
        phone == IF IsNone(customer_phone) /\ ~IsNone(order0)
                    THEN order0[1].customer_phone
                    ELSE customer_phone
    IN
    IF IsNone(phone) THEN Outcome(pays, ords, Failure("missing_phone"))
    ELSE
    LET validation == validate_payment_request(ords, order_id, phone) IN
    IF ~validation.valid
       THEN IF validation.error_type = "already_paid"
               THEN Outcome(pays, ords,
                        [Failure("already_paid") EXCEPT
                            !.existing_payment = validation.existing_payment])
               ELSE Outcome(pays, ords, Failure(validation.error_type))
    ELSE
    LET payment_id == new_payment_id(pays)
        record == payment_record(payment_id, order_id, validation.normalized_phone,
                                 validation.order[1], delay, t)
    IN  Outcome(Append(pays, record),
                update_order_status(ords, order_id, "payment_pending", t),
                [NoResult EXCEPT !.success = TRUE, !.payment_id = Some(payment_id)])

-----------------------------------------------------------------------------
(* check_payment_status_handler, complete_mpesa_payment_handler,           *)
(* cancel_payment_handler, retry_payment_handler                           *)

PaymentIndex(pays, payment_id) ==
    IF \E i \in 1..Len(pays) : pays[i].payment_id = payment_id
       THEN CHOOSE i \in 1..Len(pays) :
                /\ pays[i].payment_id = payment_id
                /\ \A j \in 1..(i - 1) : pays[j].payment_id # payment_id
       ELSE 0

check_payment_status_handler(pays, ords, payment_id) ==
    LET i == PaymentIndex(pays, payment_id) IN
    IF i = 0 THEN Outcome(pays, ords, Failure("payment_not_found"))
    ELSE Outcome(pays, ords,
            [NoResult EXCEPT !.success = TRUE,
                             !.status = pays[i].status,
                             !.data = Some(pays[i])])

\* The state check rejecting only a payment that is already completed.
can_complete_unless_completed(status) == status # "completed"

can_complete(status) == status \in {"pending", "processing"}

\* The outcome always drawn, force_success ignored.
payment_outcome_always_drawn(force_success, draw) == draw

payment_outcome(force_success, draw) ==
    IF IsNone(force_success) THEN draw ELSE force_success[1]

\* The completion that stores no confirmation code.
completed_payment_without_code(payment, transaction_id, t) ==
    [payment EXCEPT !.status = "completed", !.completed_at = Some(t)]
completed_payment(payment, transaction_id, t) ==
    [payment EXCEPT !.status = "completed",
                    !.transaction_id = Some(transaction_id),
                    !.completed_at = Some(t)]

failed_payment(payment, reason, t) ==
    [payment EXCEPT !.status = "failed",
                    !.completed_at = Some(t),
                    !.failure_reason = Some(reason)]

\* The order update that forgets the payment reference.
paid_order_without_reference(order, payment_id, t) ==
    [order EXCEPT !.payment_status = "completed",
                  !.payment_completed_at = Some(t)]

paid_order(order, payment_id, t) ==
    [order EXCEPT !.payment_status = "completed",
                  !.payment_id = Some(payment_id),
                  !.payment_completed_at = Some(t)]

confirm_order(ords, order_id, payment_id, t) ==
    IF IsNone(get_order_by_id(ords, order_id)) THEN ords
    ELSE LET confirmed == update_order_status(ords, order_id, "confirmed", t)
             i == OrderIndex(confirmed, order_id)
         IN  [confirmed EXCEPT ![i] = paid_order(@, payment_id, t)]

complete_mpesa_payment_handler(pays, ords, payment_id, force_success, draw, transaction_id, reason, t) ==
    LET i == PaymentIndex(pays, payment_id) IN
    IF i = 0 THEN Outcome(pays, ords, Failure("payment_not_found"))
    ELSE IF ~can_complete(pays[i].status)
        THEN Outcome(pays, ords, Failure("invalid_state"))
    ELSE
    LET success == payment_outcome(force_success, draw) IN
    IF success
       THEN LET updated == [pays EXCEPT ![i] = completed_payment(@, transaction_id, t)]
            IN  Outcome(updated,
                        confirm_order(ords, pays[i].order_id, payment_id, t),
                        [NoResult EXCEPT !.success = TRUE,
                                         !.payment_success = Some(TRUE),
                                         !.transaction_id = Some(transaction_id),
                                         !.data = Some(updated[i])])
       ELSE LET updated == [pays EXCEPT ![i] = failed_payment(@, reason, t)]
            IN  Outcome(updated, ords,
                        [NoResult EXCEPT !.success = TRUE,
                                         !.payment_success = Some(FALSE),
                                         !.data = Some(updated[i])])

\* The state check rejecting only a payment that is already cancelled.
can_cancel_unless_cancelled(status) == status # "cancelled"

can_cancel(status) == status \in {"pending", "processing"}

cancelled_payment(payment, t) ==
    [payment EXCEPT !.status = "cancelled",
                    !.completed_at = Some(t),
                    !.failure_reason = Some("Cancelled by user")]

\* The cancel that also marks the order cancelled.
cancel_payment_handler_touching_order(pays, ords, payment_id, t) ==
    LET i == PaymentIndex(pays, payment_id) IN
    IF i = 0 THEN Outcome(pays, ords, Failure("payment_not_found"))
    ELSE IF ~can_cancel(pays[i].status)
        THEN Outcome(pays, ords, Failure("cannot_cancel"))
    ELSE LET updated == [pays EXCEPT ![i] = cancelled_payment(@, t)]
         IN  Outcome(updated,
                     update_order_status(ords, pays[i].order_id, "cancelled", t),
                     [NoResult EXCEPT !.success = TRUE, !.data = Some(updated[i])])

cancel_payment_handler(pays, ords, payment_id, t) ==
    LET i == PaymentIndex(pays, payment_id) IN
    IF i = 0 THEN Outcome(pays, ords, Failure("payment_not_found"))
    ELSE IF ~can_cancel(pays[i].status)
        THEN Outcome(pays, ords, Failure("cannot_cancel"))
    ELSE LET updated == [pays EXCEPT ![i] = cancelled_payment(@, t)]
         IN  Outcome(updated, ords,
                     [NoResult EXCEPT !.success = TRUE, !.data = Some(updated[i])])

is_previous_attempt(payment, order_id) ==
    /\ payment.order_id = order_id
    /\ payment.status \in {"failed", "cancelled", "expired"}

previous_payments(pays, order_id) ==
    LET previous(p) == is_previous_attempt(p, order_id) IN SelectSeq(pays, previous)

\* The retry that reopens the last previous attempt instead of appending.
retry_payment_handler_reopening_previous(pays, ords, order_id, customer_phone, delay, t) ==
    LET reopen(p) == IF is_previous_attempt(p, order_id)
                        THEN [p EXCEPT !.status = "pending"] ELSE p
        reopened == [i \in 1..Len(pays) |-> reopen(pays[i])]
    IN  IF Len(previous_payments(pays, order_id)) > 0
           THEN Outcome(reopened, ords, [NoResult EXCEPT !.success = TRUE])
           ELSE initiate_mpesa_payment_handler(pays, ords, order_id,
                                               customer_phone, delay, t)
retry_payment_handler(pays, ords, order_id, customer_phone, delay, t) ==
    LET previous == previous_payments(pays, order_id)
        phone == IF Len(previous) > 0 /\ IsNone(customer_phone)
                    THEN previous[Len(previous)].customer_phone
                    ELSE customer_phone
    IN  initiate_mpesa_payment_handler(pays, ords, order_id, phone, delay, t)

-----------------------------------------------------------------------------
(* The calls a chat session can make                                       *)

Phone07 == <<"0", "7", "1", "2", "3", "4", "5", "6", "7", "8">>

PhonePlus == <<"+", "2", "5", "4", "7", "1", "2", "3", "4", "5", "6", "7", "8">>

PhoneOther == <<"0", "1", "1", "0", "0", "0", "0", "0", "0", "1">>

PhoneOtherPlus == <<"+", "2", "5", "4", "1", "1", "0", "0", "0", "0", "0", "0", "1">>

PhoneBad == <<"1", "2", "3", "4", "5">>

PhoneInputs == {None, Phone07, PhoneOther, PhoneBad}

OrderIds == {"ORD001", "ORD002", "ORD404"}

PaymentIds == { FormatPaymentId(n) : n \in 1..(MaxPayments + 1) }

ForceSuccess == {None, Some(TRUE), Some(FALSE)}

Call(name, order_id, payment_id, customer_phone, force_success) ==
    [name |-> name, order_id |-> order_id, payment_id |-> payment_id,
     customer_phone |-> customer_phone, force_success |-> force_success]

Init ==
    /\ payments = <<>>
    /\ orders = << new_order("ORD001", PhonePlus, 35000, datetime_now),
                   new_order("ORD002", PhoneOtherPlus, 9200, datetime_now) >>
    /\ op = Call("start", "", None, None, None)
    /\ result = NoResult
    /\ phone_in = None
    /\ phone_out = None
    /\ phone_again = None
    /\ calls = <<>>
    /\ products = <<>>
    /\ request = None
    /\ reply = None

Returns(out, call) ==
    /\ Len(out.payments) <= MaxPayments
    /\ payments' = out.payments
    /\ orders' = out.orders
    /\ result' = out.result
    /\ op' = call
    /\ UNCHANGED phone_vars
    /\ UNCHANGED race_vars
    /\ UNCHANGED catalog_vars

Initiate ==
    \E order_id \in OrderIds, customer_phone \in PhoneInputs,
       delay \in get_processing_delay :
        Returns(initiate_mpesa_payment_handler(payments, orders, order_id,
                                               customer_phone, delay, datetime_now),
                Call("initiate", order_id, None, customer_phone, None))

CheckStatus ==
    \E payment_id \in PaymentIds :
        Returns(check_payment_status_handler(payments, orders, payment_id),
                Call("check_status", "", payment_id, None, None))

Complete ==
    \E payment_id \in PaymentIds, force_success \in ForceSuccess,
       draw \in simulate_payment_outcome,
       transaction_id \in generate_transaction_id, reason \in failure_reasons :
        Returns(complete_mpesa_payment_handler(payments, orders, payment_id,
                    force_success, draw, transaction_id, reason, datetime_now),
                Call("complete", "", payment_id, None, force_success))

Cancel ==
    \E payment_id \in PaymentIds :
        Returns(cancel_payment_handler(payments, orders, payment_id, datetime_now),
                Call("cancel", "", payment_id, None, None))

Retry ==
    \E order_id \in OrderIds, customer_phone \in PhoneInputs,
       delay \in get_processing_delay :
        Returns(retry_payment_handler(payments, orders, order_id,
                                      customer_phone, delay, datetime_now),
                Call("retry", order_id, None, customer_phone, None))

Next == Initiate \/ CheckStatus \/ Complete \/ Cancel \/ Retry

Spec == Init /\ [][Next]_vars

-----------------------------------------------------------------------------
(* The payment handlers when save_json can fail                            *)

\* save_json writes a temporary file and renames it over the stored one; any
\* exception leaves the stored file as it was and returns False.
save_json(stored, data, written) == IF written THEN data ELSE stored

\* Which of the writes of one call succeed: the payments file, the orders
\* file in update_order_status, and the orders file for the payment fields.
WriteOutcomes == [payments : BOOLEAN, orders_status : BOOLEAN, orders_payment : BOOLEAN]

\* initiate_mpesa_payment_handler returning before it has seen that the
\* payments write failed: the order is set to payment_pending first.
initiate_mpesa_payment_handler_order_first(pays, ords, order_id, customer_phone, delay, t, written) ==
    LET out == initiate_mpesa_payment_handler(pays, ords, order_id, customer_phone, delay, t) IN
    IF ~out.result.success THEN out
    ELSE IF ~written.payments
       THEN Outcome(pays, save_json(ords, out.orders, written.orders_status), Failure("database_error"))
    ELSE Outcome(out.payments, save_json(ords, out.orders, written.orders_status), out.result)

\* The record is appended and saved; a failed save returns database_error
\* before update_order_status is called, whose own result is not looked at.
initiate_mpesa_payment_handler_saving(pays, ords, order_id, customer_phone, delay, t, written) ==
    LET out == initiate_mpesa_payment_handler(pays, ords, order_id, customer_phone, delay, t) IN
    IF ~out.result.success THEN out
    ELSE IF ~written.payments THEN Outcome(pays, ords, Failure("database_error"))
    ELSE Outcome(out.payments, save_json(ords, out.orders, written.orders_status), out.result)

\* The order is confirmed by update_order_status, then read again and given
\* its payment fields, each with a save of its own.
confirm_order_saving(ords, order_id, payment_id, t, written) ==
    IF IsNone(get_order_by_id(ords, order_id)) THEN ords
    ELSE LET confirmed == save_json(ords, update_order_status(ords, order_id, "confirmed", t),
                                    written.orders_status)
             i == OrderIndex(confirmed, order_id)
         IN  save_json(confirmed, [confirmed EXCEPT ![i] = paid_order(@, payment_id, t)],
                       written.orders_payment)

\* The orders are written before the payments, and the result of the payments
\* save is not looked at: the call answers as if every write had succeeded.
complete_mpesa_payment_handler_saving(pays, ords, payment_id, force_success, draw, transaction_id, reason, t, written) ==
    LET out == complete_mpesa_payment_handler(pays, ords, payment_id, force_success, draw,
                                              transaction_id, reason, t)
    IN  IF ~out.result.success THEN out
        ELSE Outcome(save_json(pays, out.payments, written.payments),
                     IF out.result.payment_success = Some(TRUE)
                        THEN confirm_order_saving(ords, pays[PaymentIndex(pays, payment_id)].order_id,
                                                  payment_id, t, written)
                        ELSE ords,
                     out.result)

cancel_payment_handler_saving(pays, ords, payment_id, t, written) ==
    LET out == cancel_payment_handler(pays, ords, payment_id, t) IN
    IF ~out.result.success THEN out
    ELSE Outcome(save_json(pays, out.payments, written.payments), ords, out.result)

\* One order that is stored and one that is not; the order's own phone, the
\* phone of another customer and a phone that is refused. The outcome of complete is forced, so that no draw
\* is made.
WriteOrderIds == {"ORD001", "ORD404"}

WritePhones == {None, PhoneOther, PhoneBad}

InitiateSaving ==
    \E order_id \in WriteOrderIds, customer_phone \in WritePhones,
       delay \in get_processing_delay, written \in WriteOutcomes :
        Returns(initiate_mpesa_payment_handler_saving(payments, orders, order_id,
                    customer_phone, delay, datetime_now, written),
                Call("initiate", order_id, None, customer_phone, None))

CompleteSaving ==
    \E payment_id \in PaymentIds, force_success \in {Some(TRUE), Some(FALSE)},
       transaction_id \in generate_transaction_id, reason \in failure_reasons,
       written \in WriteOutcomes :
        Returns(complete_mpesa_payment_handler_saving(payments, orders, payment_id,
                    force_success, TRUE, transaction_id, reason, datetime_now, written),
                Call("complete", "", payment_id, None, force_success))

CancelSaving ==
    \E payment_id \in PaymentIds, written \in WriteOutcomes :
        Returns(cancel_payment_handler_saving(payments, orders, payment_id, datetime_now, written),
                Call("cancel", "", payment_id, None, None))

NextWrites == InitiateSaving \/ CompleteSaving \/ CancelSaving

SpecWrites == Init /\ [][NextWrites]_vars

-----------------------------------------------------------------------------
(* validate_kenyan_phone applied to every short str, then to its result    *)

PhoneAlphabet == {"+", "0", "1", "2", "4", "5", "7", " ", "-"}

PhoneStrings == UNION { [1..n -> PhoneAlphabet] : n \in 0..MaxPhoneLen }

InitPhone ==
    /\ payments = <<>>
    /\ orders = <<>>
    /\ op = Call("start", "", None, None, None)
    /\ result = NoResult
    /\ phone_in \in PhoneStrings
    /\ phone_out = None
    /\ phone_again = None
    /\ calls = <<>>
    /\ products = <<>>
    /\ request = None
    /\ reply = None

Normalize ==
    /\ IsNone(phone_out)
    /\ phone_out' = Some(validate_kenyan_phone(phone_in))
    /\ UNCHANGED <<phone_in, phone_again>>
    /\ UNCHANGED store_vars
    /\ UNCHANGED race_vars
    /\ UNCHANGED catalog_vars

NormalizeAgain ==
    /\ ~IsNone(phone_out)
    /\ ~phone_out[1].raised
    /\ IsNone(phone_again)
    /\ phone_again' = Some(validate_kenyan_phone(phone_out[1].value))
    /\ UNCHANGED <<phone_in, phone_out>>
    /\ UNCHANGED store_vars
    /\ UNCHANGED race_vars
    /\ UNCHANGED catalog_vars

NextPhone == Normalize \/ NormalizeAgain

SpecPhone == InitPhone /\ [][NextPhone]_vars

-----------------------------------------------------------------------------
(* Python values and str methods used by the product code                  *)

\* A value handed to float() or int(): a number, a str or None.
Number(n) == [kind |-> "number", number |-> n, text |-> <<>>]

Text(s) == [kind |-> "str", number |-> 0, text |-> s]

PyNone == [kind |-> "None", number |-> 0, text |-> <<>>]

\* bool(x) as `if price` and `if stock` take it.
Truthy(x) ==
    CASE x.kind = "number" -> x.number # 0
      [] x.kind = "str" -> x.text # <<>>
      [] OTHER -> FALSE

RECURSIVE LStrip(_)
LStrip(s) == IF s # <<>> /\ Head(s) = " " THEN LStrip(Tail(s)) ELSE s

RECURSIVE RStrip(_)
RStrip(s) == IF s # <<>> /\ s[Len(s)] = " " THEN RStrip(SubSeq(s, 1, Len(s) - 1)) ELSE s

Strip(s) == RStrip(LStrip(s))

IsDigit(s) == Len(s) > 0 /\ \A i \in 1..Len(s) : \E d \in 0..9 : DigitChar(d) = s[i]

UpperLetters == <<"A", "B", "C", "D", "E", "F", "G", "H", "I", "J", "K", "L", "M", "N", "O", "P", "Q", "R", "S", "T", "U", "V", "W", "X", "Y", "Z">>

LowerLetters == <<"a", "b", "c", "d", "e", "f", "g", "h", "i", "j", "k", "l", "m", "n", "o", "p", "q", "r", "s", "t", "u", "v", "w", "x", "y", "z">>

LowerChar(c) ==
    IF \E i \in 1..26 : UpperLetters[i] = c
       THEN LowerLetters[CHOOSE i \in 1..26 : UpperLetters[i] = c] ELSE c

UpperChar(c) ==
    IF \E i \in 1..26 : LowerLetters[i] = c
       THEN UpperLetters[CHOOSE i \in 1..26 : LowerLetters[i] = c] ELSE c

Lower(s) == [i \in 1..Len(s) |-> LowerChar(s[i])]

Upper(s) == [i \in 1..Len(s) |-> UpperChar(s[i])]

\* needle in hay
Contains(hay, needle) ==
    \E i \in 0..(Len(hay) - Len(needle)) : SubSeq(hay, i + 1, i + Len(needle)) = needle

RECURSIVE SplitWords(_, _, _)
SplitWords(s, word, words) ==
    IF s = <<>> THEN (IF word = <<>> THEN words ELSE Append(words, word))
    ELSE IF Head(s) = " "
            THEN SplitWords(Tail(s), <<>>, IF word = <<>> THEN words ELSE Append(words, word))
    ELSE SplitWords(Tail(s), Append(word, Head(s)), words)

Split(s) == SplitWords(s, <<>>, <<>>)

Take(s, n) == SubSeq(s, 1, IF Len(s) < n THEN Len(s) ELSE n)

RECURSIVE Join(_)
Join(words) == IF words = <<>> THEN <<>> ELSE Head(words) \o Join(Tail(words))

\* The numerals of the model's alphabet: an optional sign and digits.
IsNumeral(s) == IsDigit(IF s # <<>> /\ Head(s) = "-" THEN Tail(s) ELSE s)

NumeralValue(s) == IF Head(s) = "-" THEN 0 - ParseInt(Tail(s)) ELSE ParseInt(s)

\* float(x) and int(x): TypeError on None, ValueError on a str that is no
\* numeral, the number otherwise.
float(x) ==
    CASE x.kind = "number" -> Return(x.number)
      [] x.kind = "str" ->
            IF IsNumeral(Strip(x.text)) THEN Return(NumeralValue(Strip(x.text))) ELSE Raise
      [] OTHER -> Raise

int(x) == float(x)

-----------------------------------------------------------------------------
(* validate_product_data                                                   *)

valid_categories ==
    { <<"E", "l", "e", "c", "t", "r", "o", "n", "i", "c", "s">>, <<"A", "c", "c", "e", "s", "s", "o", "r", "i", "e", "s">>, <<"S", "t", "o", "r", "a", "g", "e">>, <<"A", "u", "d", "i", "o">>,
      <<"M", "o", "b", "i", "l", "e">>, <<"C", "o", "m", "p", "u", "t", "i", "n", "g">>, <<"G", "a", "m", "i", "n", "g">> }

Generic == <<"G", "e", "n", "e", "r", "i", "c">>

ThreeMonths == <<"3", " ", "m", "o", "n", "t", "h", "s">>

Electronics == <<"E", "l", "e", "c", "t", "r", "o", "n", "i", "c", "s">>

Blank(s) == s = <<>> \/ Strip(s) = <<>>

name_errors(name) ==
    IF Blank(name) THEN <<"Product name is required">>
    ELSE IF Len(Strip(name)) < 3 THEN <<"Product name must be at least 3 characters long">>
    ELSE IF Len(Strip(name)) > 100 THEN <<"Product name must be less than 100 characters">>
    ELSE <<>>

price_errors(price) ==
    IF float(price).raised THEN <<"Price must be a valid number">>
    ELSE IF float(price).value <= 0 THEN <<"Price must be greater than 0">>
    ELSE <<>>

price_warnings(price) ==
    IF ~float(price).raised /\ float(price).value > 10000000
       THEN <<"Price seems very high, please confirm">> ELSE <<>>

stock_errors(stock) ==
    IF int(stock).raised THEN <<"Stock must be a valid integer">>
    ELSE IF int(stock).value < 0 THEN <<"Stock cannot be negative">>
    ELSE <<>>

stock_warnings(stock) ==
    IF int(stock).raised \/ int(stock).value < 0 THEN <<>>
    ELSE IF int(stock).value = 0 THEN <<"Adding product with zero stock">>
    ELSE IF int(stock).value > 10000 THEN <<"Stock quantity seems very high, please confirm">>
    ELSE <<>>

category_errors(category) == IF Blank(category) THEN <<"Category is required">> ELSE <<>>

category_warnings(category) ==
    IF ~Blank(category) /\ Strip(category) \notin valid_categories
       THEN <<"Category is not in standard list">> ELSE <<>>

description_warnings(description) ==
    IF Blank(description) THEN <<"Product description is empty">>
    ELSE IF Len(Strip(description)) < 10 THEN <<"Product description is very short">>
    ELSE <<>>

brand_warnings(brand) == IF Blank(brand) THEN <<"Brand not specified - using 'Generic'">> ELSE <<>>

warranty_warnings(warranty) == IF Blank(warranty) THEN <<"Warranty period not specified - using '3 months'">> ELSE <<>>

\* validate_product_data raised instead of returning.
ValidationRaised == [raised |-> TRUE, valid |-> FALSE, errors |-> <<>>, warnings |-> <<>>, validated_data |-> None]

validate_product_data(name, price, stock, category, description, brand, warranty) ==
    LET errors == name_errors(name) \o price_errors(price) \o stock_errors(stock)
                  \o category_errors(category)
        warnings == price_warnings(price) \o stock_warnings(stock)
                    \o category_warnings(category) \o description_warnings(description)
                    \o brand_warnings(brand) \o warranty_warnings(warranty)
        \* price and stock as rebound by lines 36 and 46: the number when the
        \* coercion worked, the caller's value when it raised
        price1 == IF float(price).raised THEN price ELSE Number(float(price).value)
        stock1 == IF int(stock).raised THEN stock ELSE Number(int(stock).value)
        \* lines 85 and 86 coerce again, outside any try
        final_price == IF Truthy(price1) THEN float(price1) ELSE Return(0)
        final_stock == IF Truthy(stock1) THEN int(stock1) ELSE Return(0)
    IN  IF final_price.raised \/ final_stock.raised THEN ValidationRaised
        ELSE [raised |-> FALSE, valid |-> errors = <<>>, errors |-> errors, warnings |-> warnings,
              validated_data |-> Some(
                 [name |-> Strip(name),
                  price |-> final_price.value,
                  stock |-> final_stock.value,
                  category |-> IF category = <<>> THEN Electronics ELSE Strip(category),
                  description |-> Strip(description),
                  brand |-> IF Blank(brand) THEN Generic ELSE Strip(brand),
                  warranty |-> IF Blank(warranty) THEN ThreeMonths ELSE Strip(warranty)])]

-----------------------------------------------------------------------------
(* The products collection of JSONDatabase                                 *)

\* businesses.json: the keys of the dict; no product handler writes it.
Businesses == {"biz_a", "biz_b"}

get_business(business_id) == IF business_id \in Businesses THEN Some(business_id) ELSE None

owned_by(business_id, product) == product.business_id = business_id

get_products_by_business(prods, business_id) ==
    LET mine(p) == owned_by(business_id, p) IN SelectSeq(prods, mine)

get_product_by_id(prods, product_id) ==
    IF \E i \in 1..Len(prods) : prods[i].id = product_id
       THEN Some(prods[CHOOSE i \in 1..Len(prods) :
                          /\ prods[i].id = product_id
                          /\ \A j \in 1..(i - 1) : prods[j].id # product_id])
       ELSE None

find_product_by_name(prods, name, business_id) ==
    LET scoped == IF business_id # "" THEN get_products_by_business(prods, business_id)
                  ELSE prods
        hit(p) == Contains(Lower(p.name), Lower(name))
        hits == SelectSeq(scoped, hit)
    IN  IF hits = <<>> THEN None ELSE Some(Head(hits))

digit_ids(prods) == { ParseInt(prods[i].id) : i \in { j \in 1..Len(prods) : IsDigit(prods[j].id) } }

\* add_product giving the largest stored id again.
add_product_reusing_largest_id(prods, product) ==
    Append(prods, [product EXCEPT !.id = Decimal(SetMax(digit_ids(prods))),
                                  !.created_at = datetime_now,
                                  !.updated_at = datetime_now])

add_product(prods, product) ==
    Append(prods, [product EXCEPT !.id = Decimal(SetMax(digit_ids(prods)) + 1),
                                  !.created_at = datetime_now,
                                  !.updated_at = datetime_now])

\* db.update_product replacing the record: a field the update does not supply
\* is cleared instead of kept.
update_product_clearing_unsupplied(prods, product_id, updates) ==
    LET i == CHOOSE i \in 1..Len(prods) :
                /\ prods[i].id = product_id
                /\ \A j \in 1..(i - 1) : prods[j].id # product_id
        old == prods[i]
    IN  [prods EXCEPT ![i] =
            [old EXCEPT !.name = IF IsNone(updates.name) THEN old.name ELSE updates.name[1],
                        !.price = IF IsNone(updates.price) THEN old.price ELSE updates.price[1],
                        !.stock = IF IsNone(updates.stock) THEN old.stock ELSE updates.stock[1],
                        !.category = IF IsNone(updates.category) THEN old.category
                                     ELSE updates.category[1],
                        !.description = IF IsNone(updates.description) THEN <<>>
                                        ELSE updates.description[1],
                        !.brand = IF IsNone(updates.brand) THEN old.brand ELSE updates.brand[1],
                        !.warranty = IF IsNone(updates.warranty) THEN old.warranty
                                     ELSE updates.warranty[1],
                        !.updated_at = datetime_now]]

update_product(prods, product_id, updates) ==
    LET i == CHOOSE i \in 1..Len(prods) :
                /\ prods[i].id = product_id
                /\ \A j \in 1..(i - 1) : prods[j].id # product_id
        old == prods[i]
    IN  [prods EXCEPT ![i] =
            [old EXCEPT !.name = IF IsNone(updates.name) THEN old.name ELSE updates.name[1],
                        !.price = IF IsNone(updates.price) THEN old.price ELSE updates.price[1],
                        !.stock = IF IsNone(updates.stock) THEN old.stock ELSE updates.stock[1],
                        !.category = IF IsNone(updates.category) THEN old.category
                                     ELSE updates.category[1],
                        !.description = IF IsNone(updates.description) THEN old.description
                                        ELSE updates.description[1],
                        !.brand = IF IsNone(updates.brand) THEN old.brand ELSE updates.brand[1],
                        !.warranty = IF IsNone(updates.warranty) THEN old.warranty
                                     ELSE updates.warranty[1],
                        !.updated_at = datetime_now]]

delete_product(prods, product_id) ==
    LET kept(p) == p.id # product_id IN SelectSeq(prods, kept)

summary(p) == [id |-> p.id, name |-> p.name, price |-> p.price, stock |-> p.stock, category |-> p.category, brand |-> p.brand]

\* The context that lists every product of the business, active or not.
get_contextual_product_info_any_status(prods, business_id, user_search) ==
    LET mine == get_products_by_business(prods, business_id)
    IN  [all_products |-> [i \in 1..Len(mine) |-> summary(mine[i])],
         user_search_term |-> user_search,
         business_id |-> business_id,
         total_count |-> Len(mine)]

get_contextual_product_info(prods, business_id, user_search) ==
    LET mine == get_products_by_business(prods, business_id)
        is_active(p) == p.status = "active"
        active == SelectSeq(mine, is_active)
    IN  [all_products |-> [i \in 1..Len(active) |-> summary(active[i])],
         user_search_term |-> user_search,
         business_id |-> business_id,
         total_count |-> Len(mine)]

validate_product_reference(prods, product_identifier, business_id) ==
    LET by_id == IF IsDigit(product_identifier)
                    THEN get_product_by_id(prods, product_identifier) ELSE None
        owned == IF ~IsNone(by_id) /\ by_id[1].business_id # business_id THEN None ELSE by_id
        product == IF IsNone(owned)
                      THEN find_product_by_name(prods, product_identifier, business_id)
                      ELSE owned
    IN  IF ~IsNone(product)
           THEN [exists |-> TRUE, product |-> product, match_type |-> "exact", context |-> None]
           ELSE [exists |-> FALSE, product |-> None, match_type |-> "none",
                 context |-> Some(get_contextual_product_info(prods, business_id,
                                                              product_identifier))]

-----------------------------------------------------------------------------
(* add_product_handler, update_product_handler, delete_product_handler     *)

NoReply ==
    [success |-> FALSE, error_type |-> "", validation_errors |-> <<>>, warnings |-> <<>>,
     exists |-> FALSE, product |-> None, context |-> None, data |-> None]

Rejected(error_type) == [NoReply EXCEPT !.error_type = error_type]

Answer(prods, rep) == [products |-> prods, reply |-> rep]

strftime_mmdd == <<"0", "6", "0", "1">>

make_sku(name) == Take(Join(Take(Split(Upper(name)), 2)), 6) \o <<"-">> \o strftime_mmdd

new_product(business_id, validated_data, t) ==
    [id |-> <<>>,
     name |-> validated_data.name,
     price |-> validated_data.price,
     stock |-> validated_data.stock,
     category |-> validated_data.category,
     business_id |-> business_id,
     description |-> validated_data.description,
     sku |-> make_sku(validated_data.name),
     brand |-> validated_data.brand,
     warranty |-> validated_data.warranty,
     status |-> "active",
     created_at |-> t,
     updated_at |-> t]

add_product_handler(prods, business_id, name, price, stock, category, description, brand, warranty) ==
    IF IsNone(get_business(business_id)) THEN Answer(prods, Rejected("business_not_found"))
    ELSE
    LET validation == validate_product_data(name, price, stock, category,
                                            description, brand, warranty)
    IN
    IF validation.raised THEN Answer(prods, Rejected("system_error"))
    ELSE IF ~validation.valid
       THEN Answer(prods, [Rejected("validation_error") EXCEPT
                              !.validation_errors = validation.errors])
    ELSE
    LET validated_data == validation.validated_data[1]
        existing_product == find_product_by_name(prods, validated_data.name, business_id)
    IN
    IF ~IsNone(existing_product)
       THEN Answer(prods, [Rejected("duplicate_product") EXCEPT !.product = existing_product])
    ELSE
    LET saved == add_product(prods, new_product(business_id, validated_data, datetime_now))
    IN  Answer(saved,
               [NoReply EXCEPT !.success = TRUE,
                               !.warnings = validation.warnings,
                               !.data = find_product_by_name(saved, validated_data.name,
                                                             business_id)])

not_found_context(context) ==
    [available_products |-> context.all_products, total_products |-> context.total_count]

NoUpdates == [name |-> None, price |-> None, stock |-> None, category |-> None, description |-> None, brand |-> None, warranty |-> None]

update_name_errors(updates) ==
    IF IsNone(updates.name) THEN <<>>
    ELSE IF Blank(updates.name[1]) THEN <<"Product name cannot be empty">>
    ELSE IF Len(Strip(updates.name[1])) < 3 THEN <<"Product name must be at least 3 characters">>
    ELSE <<>>

update_price_errors(updates) ==
    IF IsNone(updates.price) THEN <<>>
    ELSE IF float(updates.price[1]).raised THEN <<"Invalid price format - must be a number">>
    ELSE IF float(updates.price[1]).value <= 0 THEN <<"Price must be greater than 0">>
    ELSE <<>>

update_stock_errors(updates) ==
    IF IsNone(updates.stock) THEN <<>>
    ELSE IF int(updates.stock[1]).raised THEN <<"Invalid stock format - must be a whole number">>
    ELSE IF int(updates.stock[1]).value < 0 THEN <<"Stock cannot be negative">>
    ELSE <<>>

valid_updates(updates) ==
    [name |-> IF update_name_errors(updates) = <<>> /\ ~IsNone(updates.name)
                 THEN Some(Strip(updates.name[1])) ELSE None,
     price |-> IF update_price_errors(updates) = <<>> /\ ~IsNone(updates.price)
                  THEN Some(float(updates.price[1]).value) ELSE None,
     stock |-> IF update_stock_errors(updates) = <<>> /\ ~IsNone(updates.stock)
                  THEN Some(int(updates.stock[1]).value) ELSE None,
     category |-> IF IsNone(updates.category) THEN None ELSE Some(Strip(updates.category[1])),
     description |-> IF IsNone(updates.description) THEN None
                     ELSE Some(Strip(updates.description[1])),
     brand |-> IF IsNone(updates.brand) THEN None ELSE Some(Strip(updates.brand[1])),
     warranty |-> IF IsNone(updates.warranty) THEN None ELSE Some(Strip(updates.warranty[1]))]

update_product_handler(prods, business_id, product_identifier, updates) ==
    LET validation_result == validate_product_reference(prods, product_identifier, business_id)
    IN
    IF ~validation_result.exists
       THEN Answer(prods, [Rejected("product_not_found") EXCEPT
                              !.context = Some(not_found_context(validation_result.context[1]))])
    ELSE
    LET product == validation_result.product[1]
        validation_errors == update_name_errors(updates) \o update_price_errors(updates)
                             \o update_stock_errors(updates)
    IN
    IF validation_errors # <<>>
       THEN Answer(prods, [Rejected("validation_error") EXCEPT
                              !.validation_errors = validation_errors,
                              !.product = Some(product)])
    ELSE IF valid_updates(updates) = NoUpdates
       THEN Answer(prods, [Rejected("no_updates") EXCEPT !.data = Some(product)])
    ELSE
    LET saved == update_product(prods, product.id, valid_updates(updates))
    IN  Answer(saved, [NoReply EXCEPT !.success = TRUE,
                                      !.data = get_product_by_id(saved, product.id)])

\* The notes on a deleted product's stock and inventory value; the figures
\* the messages quote are left out.
deletion_warnings(product) ==
    (IF product.stock > 10 THEN <<"Product has units in stock">> ELSE <<>>)
    \o (IF product.price * product.stock > 100000
           THEN <<"Product inventory value is KSh">> ELSE <<>>)

delete_product_handler(prods, business_id, product_identifier) ==
    LET validation_result == validate_product_reference(prods, product_identifier, business_id)
    IN  IF ~validation_result.exists
           THEN Answer(prods, [Rejected("product_not_found") EXCEPT
                                  !.context = Some(not_found_context(validation_result.context[1]))])
           ELSE Answer(delete_product(prods, validation_result.product[1].id),
                       [NoReply EXCEPT !.success = TRUE,
                                       !.warnings = deletion_warnings(validation_result.product[1]),
                                       !.data = validation_result.product])

-----------------------------------------------------------------------------
(* The calls a vendor session can make                                     *)

BusinessInputs == {"biz_a", "biz_b", ""}

Identifiers == { <<"1">>, <<"2">>, <<"9">>, <<"t", "v">>, <<"F", "A", "N">>, <<"h", "u", "b">>, <<>> }

Hub == <<"H", "u", "b">>

Tv2 == <<"T", "V", " ", "2">>

Fan1 == <<"F", "a", "n", " ", "1">>

Tv1 == <<"T", "V", " ", "1">>

LongName == [i \in 1..101 |-> "a"]

Acme == <<"A", "c", "m", "e">>

SixMonths == <<"6", " ", "m", "o", "n", "t", "h", "s">>

UsbHub == <<"A", " ", "u", "s", "b", " ", "h", "u", "b", " ", "w", "i", "t", "h", " ", "p", "o", "r", "t", "s">>

fields(name, price, stock, category, description, brand, warranty) == [name |-> name, price |-> price, stock |-> stock, category |-> category, description |-> description, brand |-> brand, warranty |-> warranty]

NoFields == fields(<<>>, PyNone, PyNone, <<>>, <<>>, <<>>, <<>>)

GoodFields == fields(Hub, Number(100), Number(5), Electronics, UsbHub, Acme, SixMonths)

\* The complete record and the records that differ from it in one field.
AddInputs ==
    { GoodFields, [GoodFields EXCEPT !.name = Tv2] }
    \cup { [GoodFields EXCEPT !.name = n] : n \in { <<>>, <<" ", " ">>, <<"a", "b">>, LongName } }
    \cup { [GoodFields EXCEPT !.price = p] :
              p \in { Number(0), Number(0 - 5), Text(<<"a", "b", "c">>), Text(<<"1", "2">>), Text(<<>>), PyNone } }
    \cup { [GoodFields EXCEPT !.stock = s] :
              s \in { Number(0), Number(0 - 1), Text(<<"a", "b", "c">>), PyNone } }
    \cup { [GoodFields EXCEPT !.category = c] : c \in { <<>>, <<" ">>, <<"T", "o", "y", "s">> } }
    \cup { [GoodFields EXCEPT !.description = <<>>],
           [GoodFields EXCEPT !.brand = <<>>],
           [GoodFields EXCEPT !.warranty = <<>>] }

UpdateInputs ==
    { NoUpdates,
      [NoUpdates EXCEPT !.price = Some(Number(250))],
      [NoUpdates EXCEPT !.stock = Some(Number(0 - 1))],
      [NoUpdates EXCEPT !.name = Some(<<"a", "b">>)] }

\* A call and its place n in the session.
Request(n, name, business_id, product_identifier, record, updates) ==
    [n |-> n, name |-> name, business_id |-> business_id,
     product_identifier |-> product_identifier, fields |-> record, updates |-> updates,
     category |-> <<>>, search_term |-> <<>>, price_adjustment |-> 0, adjustment_type |-> "",
     customer_phone |-> <<>>, items |-> <<>>, new_stock |-> PyNone]

stored_product(id, business_id, name, status) ==
    [new_product(business_id,
                 [name |-> name, price |-> 100, stock |-> 5, category |-> Electronics,
                  description |-> UsbHub, brand |-> Acme, warranty |-> SixMonths],
                 datetime_now)
        EXCEPT !.id = id, !.status = status]

InitCatalog ==
    /\ products = << stored_product(<<"1">>, "biz_a", Tv2, "active"),
                     stored_product(<<"2">>, "biz_b", Fan1, "active"),
                     stored_product(<<"3">>, "biz_a", Tv1, "inactive") >>
    /\ request = Request(0, "start", "", <<>>, NoFields, NoUpdates)
    /\ reply = NoReply
    /\ payments = <<>>
    /\ orders = <<>>
    /\ op = Call("start", "", None, None, None)
    /\ result = NoResult
    /\ phone_in = None
    /\ phone_out = None
    /\ phone_again = None
    /\ calls = <<>>

Answers(out, call) ==
    /\ request.n < MaxCalls
    /\ Len(out.products) <= MaxProducts
    /\ products' = out.products
    /\ reply' = out.reply
    /\ request' = call
    /\ UNCHANGED store_vars
    /\ UNCHANGED phone_vars
    /\ UNCHANGED race_vars

ValidateReference ==
    \E business_id \in BusinessInputs, product_identifier \in Identifiers :
        LET found == validate_product_reference(products, product_identifier, business_id)
        IN  Answers(Answer(products, [NoReply EXCEPT !.success = found.exists,
                                                     !.exists = found.exists,
                                                     !.product = found.product,
                                                     !.context = found.context]),
                    Request(request.n + 1, "validate_product_reference", business_id, product_identifier,
                            NoFields, NoUpdates))

AddProduct ==
    \E business_id \in BusinessInputs, f \in AddInputs :
        Answers(add_product_handler(products, business_id, f.name, f.price, f.stock,
                                    f.category, f.description, f.brand, f.warranty),
                Request(request.n + 1, "add_product", business_id, <<>>, f, NoUpdates))

UpdateProduct ==
    \E business_id \in BusinessInputs, product_identifier \in Identifiers,
       updates \in UpdateInputs :
        Answers(update_product_handler(products, business_id, product_identifier, updates),
                Request(request.n + 1, "update_product", business_id, product_identifier, NoFields, updates))

DeleteProduct ==
    \E business_id \in BusinessInputs, product_identifier \in Identifiers :
        Answers(delete_product_handler(products, business_id, product_identifier),
                Request(request.n + 1, "delete_product", business_id, product_identifier, NoFields,
                        NoUpdates))

NextCatalog == ValidateReference \/ AddProduct \/ UpdateProduct \/ DeleteProduct

SpecCatalog == InitCatalog /\ [][NextCatalog]_vars

-----------------------------------------------------------------------------
(* A vendor session that edits the catalogue: renames, partial updates,    *)
(* additions under a stored name, deletions                                *)

EditBusinesses == {"biz_a", ""}

EditIdentifiers == { <<"1">>, <<"9">>, <<"t", "v">>, <<"F", "A", "N">> }

Tv12 == <<"T", "V", " ", "1", "2">>

Fan == <<"F", "a", "n">>

\* The complete record under a new name, under stored names in another case,
\* under a name that is too long, and under a part of a stored name.
EditAdds ==
    { GoodFields, [GoodFields EXCEPT !.name = Lower(Tv1)],
      [GoodFields EXCEPT !.name = Lower(Tv2)], [GoodFields EXCEPT !.name = LongName],
      [GoodFields EXCEPT !.name = Fan] }

\* Updates of one field, and updates of two fields of which one may be invalid.
EditUpdates ==
    { NoUpdates,
      [NoUpdates EXCEPT !.price = Some(Number(250))],
      [NoUpdates EXCEPT !.price = Some(Text(<<"a", "b", "c">>))],
      [NoUpdates EXCEPT !.name = Some(<<"a", "b">>)],
      [NoUpdates EXCEPT !.name = Some(Lower(Tv1))],
      [NoUpdates EXCEPT !.name = Some(Tv12)],
      [NoUpdates EXCEPT !.name = Some(LongName)],
      [NoUpdates EXCEPT !.category = Some(<<>>)],
      [NoUpdates EXCEPT !.price = Some(Number(250)), !.stock = Some(Number(0 - 1))],
      [NoUpdates EXCEPT !.stock = Some(Number(12)), !.brand = Some(<<" ">> \o Generic)] }

EditAdd ==
    \E business_id \in EditBusinesses \cup {"biz_b"}, f \in EditAdds :
        Answers(add_product_handler(products, business_id, f.name, f.price, f.stock,
                                    f.category, f.description, f.brand, f.warranty),
                Request(request.n + 1, "add_product", business_id, <<>>, f, NoUpdates))

EditUpdate ==
    \E business_id \in EditBusinesses, product_identifier \in EditIdentifiers,
       updates \in EditUpdates :
        Answers(update_product_handler(products, business_id, product_identifier, updates),
                Request(request.n + 1, "update_product", business_id, product_identifier, NoFields, updates))

EditDelete ==
    \E business_id \in EditBusinesses, product_identifier \in EditIdentifiers :
        Answers(delete_product_handler(products, business_id, product_identifier),
                Request(request.n + 1, "delete_product", business_id, product_identifier, NoFields,
                        NoUpdates))

NextEdits == EditAdd \/ EditUpdate \/ EditDelete

SpecEdits == InitCatalog /\ [][NextEdits]_vars

-----------------------------------------------------------------------------
(* show_products_handler                                                   *)

\* The characters of the catalogue's texts in the order of their code points.
Ascii == <<" ", "+", "-">> \o DigitChars \o UpperLetters \o LowerLetters

Ord(c) == CHOOSE i \in 1..Len(Ascii) : Ascii[i] = c

RECURSIVE StrLessEq(_, _)
\* a <= b in the order of str
StrLessEq(a, b) ==
    IF a = <<>> THEN TRUE
    ELSE IF b = <<>> THEN FALSE
    ELSE IF Head(a) = Head(b) THEN StrLessEq(Tail(a), Tail(b))
    ELSE Ord(Head(a)) < Ord(Head(b))

RECURSIVE sorted_by_name(_)
\* list.sort with key name.lower(): stable, so equal keys keep store order
sorted_by_name(prods) ==
    IF prods = <<>> THEN <<>>
    ELSE LET rest == sorted_by_name(SubSeq(prods, 1, Len(prods) - 1))
             last == prods[Len(prods)]
             k == Cardinality({ i \in 1..Len(rest) :
                                  StrLessEq(Lower(rest[i].name), Lower(last.name)) })
         IN  SubSeq(rest, 1, k) \o <<last>> \o SubSeq(rest, k + 1, Len(rest))

RECURSIVE total_value(_)
total_value(prods) ==
    IF prods = <<>> THEN 0
    ELSE Head(prods).price * Head(prods).stock + total_value(Tail(prods))

in_category(prods, category) ==
    LET same(p) == Lower(p.category) = Lower(category) IN SelectSeq(prods, same)

matching(prods, search_term) ==
    LET search_lower == Lower(search_term)
        hit(p) == \/ Contains(Lower(p.name), search_lower)
                  \/ Contains(Lower(p.description), search_lower)
                  \/ Contains(Lower(p.brand), search_lower)
    IN  SelectSeq(prods, hit)

listing(prods) ==
    [products |-> prods, total_products |-> Len(prods), total_value |-> total_value(prods)]

\* The reply when no product is in the category; list(set(...)) has no
\* defined order, so the categories are a set.
category_miss(prods, business_id) ==
    LET mine == get_products_by_business(prods, business_id)
    IN  [NoReply EXCEPT !.success = TRUE,
                        !.context = Some([available_categories |->
                                             { mine[i].category : i \in 1..Len(mine) }]),
                        !.data = Some(listing(<<>>))]

\* The reply to a search without a hit, listing every product of the
\* business whatever its status.
search_miss_listing_every_product(prods, business_id, search_term) ==
    LET context == get_contextual_product_info_any_status(prods, business_id, search_term)
    IN  [NoReply EXCEPT !.success = TRUE,
                        !.context = Some([search_term |-> search_term,
                                          available_products |-> context.all_products]),
                        !.data = Some(listing(<<>>))]

search_miss(prods, business_id, search_term) ==
    LET context == get_contextual_product_info(prods, business_id, search_term)
    IN  [NoReply EXCEPT !.success = TRUE,
                        !.context = Some([search_term |-> search_term,
                                          available_products |-> context.all_products]),
                        !.data = Some(listing(<<>>))]

\* category and search_term are <<>> when the caller gives none: the handler
\* treats None and '' alike.
show_products_handler(prods, business_id, category, search_term) ==
    IF IsNone(get_business(business_id)) THEN Rejected("business_not_found")
    ELSE
    LET mine == get_products_by_business(prods, business_id)
        in_cat == IF category # <<>> THEN in_category(mine, category) ELSE mine
        found == IF search_term # <<>> THEN matching(in_cat, search_term) ELSE in_cat
    IN  IF mine = <<>>
           THEN [NoReply EXCEPT !.success = TRUE, !.data = Some(listing(<<>>))]
        ELSE IF category # <<>> /\ in_cat = <<>> THEN category_miss(prods, business_id)
        ELSE IF search_term # <<>> /\ found = <<>>
           THEN search_miss(prods, business_id, search_term)
        ELSE [NoReply EXCEPT !.success = TRUE, !.data = Some(listing(sorted_by_name(found)))]

ShowCategories == { <<>>, <<"e", "l", "e", "c", "t", "r", "o", "n", "i", "c", "s">>, <<"T", "o", "y", "s">> }

ShowSearches == { <<>>, <<"t", "v">>, <<"z", "z", "z">>, <<"A", "C", "M", "E">> }

ShowProducts ==
    \E business_id \in BusinessInputs, category \in ShowCategories,
       search_term \in ShowSearches :
        Answers(Answer(products,
                       show_products_handler(products, business_id, category, search_term)),
                [Request(request.n + 1, "show_products", business_id, <<>>, NoFields, NoUpdates)
                    EXCEPT !.category = category, !.search_term = search_term])

NextListing == ShowProducts \/ DeleteProduct

SpecListing == InitCatalog /\ [][NextListing]_vars

-----------------------------------------------------------------------------
(* bulk_update_prices                                                      *)

\* max(0, round(new_price, 2)); the adjustments of the model keep whole
\* prices whole, on which round is the identity.
adjusted_price(current_price, price_adjustment, adjustment_type) ==
    LET new_price == IF adjustment_type = "percentage"
                        THEN (current_price * (100 + price_adjustment)) \div 100
                        ELSE current_price + price_adjustment
    IN  IF new_price < 0 THEN 0 ELSE new_price

RECURSIVE reprice(_, _, _, _)
\* The loop over the business's products, one db.update_product each.
reprice(prods, mine, price_adjustment, adjustment_type) ==
    IF mine = <<>> THEN prods
    ELSE reprice(update_product(prods, Head(mine).id,
                                [NoUpdates EXCEPT !.price =
                                    Some(adjusted_price(Head(mine).price, price_adjustment,
                                                        adjustment_type))]),
                 Tail(mine), price_adjustment, adjustment_type)

bulk_update_prices(prods, business_id, price_adjustment, adjustment_type) ==
    LET mine == get_products_by_business(prods, business_id)
    IN  IF mine = <<>> THEN Answer(prods, Rejected("no_products"))
        ELSE Answer(reprice(prods, mine, price_adjustment, adjustment_type),
                    [NoReply EXCEPT !.success = TRUE,
                                    !.data = Some([updated_count |-> Len(mine),
                                                   total_products |-> Len(mine)])])

\* Adjustments under which a whole price stays whole.
Adjustments ==
    { [value |-> 0 - 100, type |-> "percentage"], [value |-> 100, type |-> "percentage"],
      [value |-> 0 - 100, type |-> "fixed"], [value |-> 50, type |-> "fixed"] }

BulkUpdatePrices ==
    \E business_id \in BusinessInputs, adjustment \in Adjustments :
        Answers(bulk_update_prices(products, business_id, adjustment.value, adjustment.type),
                [Request(request.n + 1, "bulk_update_prices", business_id, <<>>, NoFields, NoUpdates)
                    EXCEPT !.price_adjustment = adjustment.value,
                           !.adjustment_type = adjustment.type])

NextPrices == AddProduct \/ UpdateProduct \/ BulkUpdatePrices

SpecPrices == InitCatalog /\ [][NextPrices]_vars

-----------------------------------------------------------------------------
(* place_order_handler and update_stock_handler                            *)

ORD == <<"O", "R", "D">>

\* The numbers of the stored order ids of the form ORD<digits>.
order_numbers(ords) ==
    { ParseInt(SubSeq(ords[i].id, 4, Len(ords[i].id))) :
         i \in { j \in 1..Len(ords) : /\ StartsWith(ords[j].id, ORD)
                                      /\ IsDigit(SubSeq(ords[j].id, 4, Len(ords[j].id))) } }

add_order(ords, order, t) ==
    Append(ords, [order EXCEPT !.id = ORD \o ZeroPad(Decimal(SetMax(order_numbers(ords)) + 1), 3),
                               !.created_at = t,
                               !.updated_at = t])

delivery_fee == 200

\* The order dict place_order_handler builds, with the fields of its items;
\* the keys that only a payment adds are there as None.
placed_order(customer_name, customer_phone, business_id, order_details, total_amount, delivery_address) ==
    [id |-> <<>>,
     customer_name |-> customer_name,
     customer_phone |-> customer_phone,
     business_id |-> business_id,
     items |-> order_details,
     total_amount |-> total_amount,
     delivery_fee |-> delivery_fee,
     grand_total |-> total_amount + delivery_fee,
     status |-> "pending",
     payment_method |-> "mpesa",
     payment_status |-> "pending",
     delivery_address |-> delivery_address,
     payment_id |-> None,
     confirmed_at |-> None,
     payment_completed_at |-> None,
     created_at |-> "",
     updated_at |-> ""]

NoItemsChecked == [order_details |-> <<>>, total_amount |-> 0, business_id |-> None, errors |-> <<>>]

\* One pass of the loop over the order's items: the item is refused with an
\* error or joins order_details. The stock it is compared with is the stored
\* one.
check_item(prods, item, checked) ==
    LET quantity == int(item.quantity)
        product == get_product_by_id(prods, item.product_id)
        refused(error) == [checked EXCEPT !.errors = Append(@, error)]
    IN  IF quantity.raised THEN refused("Invalid quantity for product")
        ELSE IF quantity.value <= 0 THEN refused("Quantity must be positive for product")
        ELSE IF IsNone(product) THEN refused("Product not found")
        ELSE IF product[1].status # "active" THEN refused("Product is not available")
        ELSE IF quantity.value > product[1].stock THEN refused("Not enough stock")
        ELSE IF ~IsNone(checked.business_id) /\ checked.business_id[1] # product[1].business_id
           THEN refused("All products must be from the same business in one order")
        ELSE [checked EXCEPT
                 !.order_details = Append(@, [product_id |-> item.product_id,
                                              product_name |-> product[1].name,
                                              quantity |-> quantity.value,
                                              unit_price |-> product[1].price,
                                              total_price |-> product[1].price * quantity.value]),
                 !.total_amount = @ + product[1].price * quantity.value,
                 !.business_id = Some(product[1].business_id)]

RECURSIVE check_items(_, _, _)
check_items(prods, order_items, checked) ==
    IF order_items = <<>> THEN checked
    ELSE check_items(prods, Tail(order_items), check_item(prods, Head(order_items), checked))

\* take_stock taking only the first item's quantity.
take_stock_of_first_item(prods, order_details) ==
    IF order_details = <<>> THEN prods
    ELSE update_product(prods, Head(order_details).product_id,
                        [NoUpdates EXCEPT !.stock =
                            Some(get_product_by_id(prods, Head(order_details).product_id)[1].stock
                                   - Head(order_details).quantity)])

RECURSIVE take_stock(_, _)
\* The loop that takes each item's quantity from its product's stock.
take_stock(prods, order_details) ==
    IF order_details = <<>> THEN prods
    ELSE LET item == Head(order_details)
             product == get_product_by_id(prods, item.product_id)[1]
         IN  take_stock(update_product(prods, item.product_id,
                                       [NoUpdates EXCEPT !.stock = Some(product.stock - item.quantity)]),
                        Tail(order_details))

Placed(prods, ords, rep) == [products |-> prods, orders |-> ords, reply |-> rep]

\* The handler answers with a text; error_type names which refusal it is.
place_order_handler(prods, ords, name, phone, address, order_items) ==
    LET customer_name == Strip(name)
        customer_phone == Strip(phone)
        delivery_address == Strip(address)
    IN
    IF customer_name = <<>> \/ customer_phone = <<>> \/ delivery_address = <<>>
       THEN Placed(prods, ords, Rejected("missing_information"))
    ELSE IF order_items = <<>> THEN Placed(prods, ords, Rejected("no_items"))
    ELSE IF /\ ~StartsWith(customer_phone, <<"+", "2", "5", "4">>)
            /\ ~StartsWith(customer_phone, <<"0", "7">>)
            /\ ~StartsWith(customer_phone, <<"0", "1">>)
       THEN Placed(prods, ords, Rejected("invalid_phone"))
    ELSE
    LET normalized == IF StartsWith(customer_phone, <<"0", "7">>) \/ StartsWith(customer_phone, <<"0", "1">>)
                         THEN <<"+", "2", "5", "4">> \o SubSeq(customer_phone, 2, Len(customer_phone))
                         ELSE customer_phone
        checked == check_items(prods, order_items, NoItemsChecked)
    IN
    IF checked.errors # <<>>
       THEN Placed(prods, ords, [Rejected("order_errors") EXCEPT
                                    !.validation_errors = checked.errors])
    ELSE IF checked.order_details = <<>> THEN Placed(prods, ords, Rejected("no_valid_items"))
    ELSE
    LET saved == add_order(ords, placed_order(customer_name, normalized, checked.business_id[1],
                                              checked.order_details, checked.total_amount,
                                              delivery_address),
                           datetime_now)
    IN  Placed(take_stock(prods, checked.order_details), saved,
               [NoReply EXCEPT !.success = TRUE, !.data = Some(saved[Len(saved)])])

update_stock_handler(prods, business_id, product_identifier, new_stock) ==
    IF int(new_stock).raised \/ int(new_stock).value < 0
       THEN Answer(prods, Rejected("validation_error"))
       ELSE update_product_handler(prods, business_id, product_identifier,
                                   [NoUpdates EXCEPT !.stock = Some(Number(int(new_stock).value))])

Ann == <<"A", "n", "n">>

Nairobi == <<"N", "a", "i", "r", "o", "b", "i">>

Item(product_id, quantity) == [product_id |-> product_id, quantity |-> quantity]

\* Orders of one item, of two items of one product, of two businesses'
\* products, and orders whose quantity or product is refused.
OrderInputs ==
    { <<>>,
      << Item(<<"1">>, Number(3)) >>,
      << Item(<<"1">>, Number(3)), Item(<<"1">>, Number(3)) >>,
      << Item(<<"1">>, Number(6)) >>,
      << Item(<<"2">>, Number(5)) >>,
      << Item(<<"1">>, Number(1)), Item(<<"2">>, Number(1)) >>,
      << Item(<<"3">>, Number(1)) >>,
      << Item(<<"9">>, Number(1)) >>,
      << Item(<<"1">>, Number(0)) >>,
      << Item(<<"1">>, Text(<<"x">>)) >> }

CustomerPhones == { Phone07, PhonePlus, PhoneBad, <<>> }

StockInputs == { Number(0), Number(3), Number(0 - 3), Text(<<"x">>) }

PlaceOrder ==
    \E customer_phone \in CustomerPhones, order_items \in OrderInputs :
        LET out == place_order_handler(products, orders, Ann, customer_phone, Nairobi, order_items)
        IN  /\ request.n < MaxCalls
            /\ products' = out.products
            /\ orders' = out.orders
            /\ reply' = out.reply
            /\ request' = [Request(request.n + 1, "place_order", "", <<>>, NoFields, NoUpdates)
                              EXCEPT !.customer_phone = customer_phone, !.items = order_items]
            /\ UNCHANGED <<payments, op, result>>
            /\ UNCHANGED phone_vars
            /\ UNCHANGED race_vars

UpdateStock ==
    \E business_id \in BusinessInputs, product_identifier \in Identifiers,
       new_stock \in StockInputs :
        Answers(update_stock_handler(products, business_id, product_identifier, new_stock),
                [Request(request.n + 1, "update_stock", business_id, product_identifier, NoFields, NoUpdates)
                    EXCEPT !.new_stock = new_stock])

NextOrders == PlaceOrder \/ UpdateStock \/ AddProduct \/ UpdateProduct

SpecOrders == InitCatalog /\ [][NextOrders]_vars

\* Orders and stock corrections alone.
NextPlacing == PlaceOrder \/ UpdateStock

SpecPlacing == InitCatalog /\ [][NextPlacing]_vars

-----------------------------------------------------------------------------
(* place_order_handler, then initiate_mpesa_payment_handler for the order  *)

PhoneSpaced == <<"0", "7", "1", "2", " ", "3", "4", "5", " ", "6", "7", "8">>

PhoneHyphened == <<"+", "2", "5", "4", "-", "7", "1", "2", "-", "3", "4", "5", "6", "7", "8">>

PhonePadded == <<" ", "0", "7", "1", "2", "3", "4", "5", "6", "7", "8", " ">>

CheckoutPhones == { Phone07, PhonePlus, PhoneSpaced, PhoneHyphened, PhonePadded, PhoneBad }

CheckoutItems == { << Item(<<"1">>, Number(1)) >>, << Item(<<"2">>, Number(2)) >>, << Item(<<"3">>, Number(1)) >> }

PlaceOrderByPhone ==
    \E customer_phone \in CheckoutPhones, order_items \in CheckoutItems :
        LET out == place_order_handler(products, orders, Ann, customer_phone, Nairobi, order_items)
        IN  /\ request.n < MaxCalls
            /\ products' = out.products
            /\ orders' = out.orders
            /\ reply' = out.reply
            /\ request' = [Request(request.n + 1, "place_order", "", <<>>, NoFields, NoUpdates)
                              EXCEPT !.customer_phone = customer_phone, !.items = order_items]
            /\ UNCHANGED <<payments, op, result>>
            /\ UNCHANGED phone_vars
            /\ UNCHANGED race_vars

\* initiate_mpesa_payment_handler(order_id) for a stored order, the phone
\* left to be the order's own.
InitiateForOrder ==
    \E i \in 1..Len(orders), delay \in get_processing_delay :
        Returns(initiate_mpesa_payment_handler(payments, orders, orders[i].id, None,
                                               delay, datetime_now),
                Call("initiate", orders[i].id, None, None, None))

NextCheckout == PlaceOrderByPhone \/ InitiateForOrder

SpecCheckout == InitCatalog /\ [][NextCheckout]_vars

-----------------------------------------------------------------------------
(* ProductValidator and ValidationMiddleware.validate_add_product_request  *)

VALID_CATEGORIES ==
    << <<"E", "l", "e", "c", "t", "r", "o", "n", "i", "c", "s">>, <<"A", "c", "c", "e", "s", "s", "o", "r", "i", "e", "s">>, <<"S", "t", "o", "r", "a", "g", "e">>, <<"A", "u", "d", "i", "o">>, <<"M", "o", "b", "i", "l", "e">>,
       <<"C", "o", "m", "p", "u", "t", "i", "n", "g">>, <<"G", "a", "m", "i", "n", "g">>, <<"C", "a", "m", "e", "r", "a", "s">>, <<"W", "e", "a", "r", "a", "b", "l", "e", "s">>, <<"H", "o", "m", "e", " ", "&", " ", "G", "a", "r", "d", "e", "n">> >>

COMMON_BRANDS ==
    << <<"A", "p", "p", "l", "e">>, <<"S", "a", "m", "s", "u", "n", "g">>, <<"D", "e", "l", "l">>, <<"H", "P">>, <<"S", "o", "n", "y">>, <<"L", "G">>, <<"M", "i", "c", "r", "o", "s", "o", "f", "t">>,
       <<"G", "o", "o", "g", "l", "e">>, <<"X", "i", "a", "o", "m", "i">>, <<"H", "u", "a", "w", "e", "i">>, <<"O", "n", "e", "P", "l", "u", "s">>, <<"O", "p", "p", "o">>, <<"V", "i", "v", "o">>,
       <<"C", "a", "n", "o", "n">>, <<"N", "i", "k", "o", "n">>, <<"J", "B", "L">>, <<"B", "o", "s", "e">>, <<"L", "o", "g", "i", "t", "e", "c", "h">>, <<"G", "e", "n", "e", "r", "i", "c">> >>

vague_names ==
    { <<"p", "r", "o", "d", "u", "c", "t">>, <<"i", "t", "e", "m">>, <<"g", "e", "n", "e", "r", "i", "c">>, <<"s", "m", "a", "r", "t", "p", "h", "o", "n", "e">>, <<"l", "a", "p", "t", "o", "p">>, <<"p", "h", "o", "n", "e">>,
      <<"c", "o", "m", "p", "u", "t", "e", "r">>, <<"d", "e", "v", "i", "c", "e">>, <<"g", "a", "d", "g", "e", "t">>, <<"a", "c", "c", "e", "s", "s", "o", "r", "y">> }

generic_descriptions ==
    { <<"g", "o", "o", "d", " ", "p", "r", "o", "d", "u", "c", "t">>, <<"n", "i", "c", "e", " ", "i", "t", "e", "m">>, <<"q", "u", "a", "l", "i", "t", "y", " ", "p", "r", "o", "d", "u", "c", "t">>, <<"g", "r", "e", "a", "t", " ", "d", "e", "v", "i", "c", "e">>,
      <<"e", "x", "c", "e", "l", "l", "e", "n", "t", " ", "i", "t", "e", "m">>, <<"g", "o", "o", "d", " ", "q", "u", "a", "l", "i", "t", "y">>, <<"b", "e", "s", "t", " ", "p", "r", "o", "d", "u", "c", "t">>, <<"a", "m", "a", "z", "i", "n", "g", " ", "p", "r", "o", "d", "u", "c", "t">> }

IsLetter(c) == \E i \in 1..26 : UpperLetters[i] = c \/ LowerLetters[i] = c

\* str.title: a letter after a character that is no letter is upper-cased,
\* every other letter lower-cased.
Title(s) ==
    [i \in 1..Len(s) |-> IF i = 1 \/ ~IsLetter(s[i - 1]) THEN UpperChar(s[i]) ELSE LowerChar(s[i])]

\* What a field validator returns: value when valid, error when not, and a
\* warning or a suggestion beside either. The Python True that
\* validate_price sets as warning is written "True".
FieldValid(value) == [valid |-> TRUE, value |-> Some(value), error |-> "", warning |-> None, suggestion |-> None, suggestions |-> FALSE]

FieldInvalid(error) == [valid |-> FALSE, value |-> None, error |-> error, warning |-> None, suggestion |-> None, suggestions |-> FALSE]

\* The messages that quote the input are written without it.
validate_product_name(name) ==
    IF name = <<>> THEN FieldInvalid("Product name is required")
    ELSE IF Len(Strip(name)) < 3 THEN FieldInvalid("Product name must be at least 3 characters long")
    ELSE IF Len(Strip(name)) > 100 THEN FieldInvalid("Product name must be less than 100 characters")
    ELSE IF Lower(Strip(name)) \in vague_names
       THEN [FieldInvalid("is too generic. Please provide specific model name and specifications")
                EXCEPT !.suggestion = Some("Example: 'iPhone 13 Pro Max 256GB Blue' instead of just 'phone'")]
    ELSE FieldValid(Strip(name))

validate_price(price) ==
    IF float(price).raised THEN FieldInvalid("Price must be a valid number")
    ELSE IF float(price).value <= 0 THEN FieldInvalid("Price must be greater than 0")
    ELSE IF float(price).value > 10000000
       THEN [FieldInvalid("Price seems unrealistically high (over 10 million KSh). Please confirm.")
                EXCEPT !.warning = Some("True")]
    ELSE IF float(price).value < 50
       THEN [FieldValid(float(price).value) EXCEPT
                !.warning = Some("Price seems very low. Please confirm this is correct.")]
    ELSE FieldValid(float(price).value)

validate_stock(stock) ==
    IF int(stock).raised THEN FieldInvalid("Stock must be a whole number")
    ELSE IF int(stock).value < 0 THEN FieldInvalid("Stock cannot be negative")
    ELSE IF int(stock).value = 0
       THEN [FieldValid(0) EXCEPT
                !.warning = Some("Adding product with zero stock. It won't be available for purchase.")]
    ELSE IF int(stock).value > 10000
       THEN [FieldValid(int(stock).value) EXCEPT
                !.warning = Some("Stock quantity seems very high. Please confirm.")]
    ELSE FieldValid(int(stock).value)

validate_category(category) ==
    IF category = <<>> THEN FieldInvalid("Category is required")
    ELSE IF \E i \in 1..Len(VALID_CATEGORIES) : Lower(VALID_CATEGORIES[i]) = Lower(Strip(category))
       THEN FieldValid(VALID_CATEGORIES[CHOOSE i \in 1..Len(VALID_CATEGORIES) :
                      /\ Lower(VALID_CATEGORIES[i]) = Lower(Strip(category))
                      /\ \A j \in 1..(i - 1) :
                            Lower(VALID_CATEGORIES[j]) # Lower(Strip(category))])
    ELSE [FieldInvalid("Invalid category") EXCEPT !.suggestions = TRUE]

validate_description(description) ==
    IF description = <<>>
       THEN FieldInvalid("Product description is required for better customer experience")
    ELSE IF Len(Strip(description)) < 10
       THEN FieldInvalid("Description is too short. Please provide at least 10 characters with meaningful details.")
    ELSE IF Len(Strip(description)) > 500
       THEN FieldInvalid("Description is too long. Please keep it under 500 characters.")
    ELSE IF Lower(Strip(description)) \in generic_descriptions
       THEN [FieldInvalid("is too generic. Please provide specific features, specifications, or benefits.")
                EXCEPT !.suggestion = Some("Example: 'Latest smartphone with 64MP camera, 128GB storage, and fast charging'")]
    ELSE FieldValid(Strip(description))

validate_brand(brand) ==
    IF brand = <<>> THEN FieldInvalid("Brand is required")
    ELSE IF Len(Strip(brand)) < 2 THEN FieldInvalid("Brand name must be at least 2 characters")
    ELSE IF \A i \in 1..Len(COMMON_BRANDS) : Lower(COMMON_BRANDS[i]) # Lower(Strip(brand))
       THEN [FieldValid(Title(Strip(brand))) EXCEPT
                !.suggestion = Some("Unrecognized brand. Common brands include")]
    ELSE FieldValid(Title(Strip(brand)))

\* WARRANTY_PATTERNS on a stripped, lower-cased text: digits, then spaces,
\* then month, months, year or years; or one of the three fixed phrases.
matches_warranty_pattern(warranty) ==
    \/ \E d \in 1..Len(warranty), k \in 1..Len(warranty) :
          /\ d <= k
          /\ IsDigit(SubSeq(warranty, 1, d))
          /\ \A i \in (d + 1)..k : warranty[i] = " "
          /\ SubSeq(warranty, k + 1, Len(warranty)) \in
                { <<"m", "o", "n", "t", "h">>, <<"m", "o", "n", "t", "h", "s">>, <<"y", "e", "a", "r">>, <<"y", "e", "a", "r", "s">> }
    \/ warranty \in { <<"n", "o", " ", "w", "a", "r", "r", "a", "n", "t", "y">>, <<"l", "i", "f", "e", "t", "i", "m", "e">>, <<"l", "i", "m", "i", "t", "e", "d">> }

validate_warranty(warranty) ==
    IF warranty = <<>> THEN FieldInvalid("Warranty period is required")
    ELSE IF matches_warranty_pattern(Lower(Strip(warranty))) THEN FieldValid(Lower(Strip(warranty)))
    ELSE [FieldInvalid("Invalid warranty format") EXCEPT
             !.suggestion = Some("Examples: '12 months', '2 years', '6 months', 'no warranty', 'lifetime'")]

\* kwargs[field] is None or str(kwargs[field]).strip() == ""
MissingValue(x) == x.kind = "None" \/ ( x.kind = "str" /\ Blank(x.text) )

missing_fields(f) ==
    (IF Blank(f.name) THEN <<"name">> ELSE <<>>)
    \o (IF MissingValue(f.price) THEN <<"price">> ELSE <<>>)
    \o (IF MissingValue(f.stock) THEN <<"stock">> ELSE <<>>)
    \o (IF Blank(f.category) THEN <<"category">> ELSE <<>>)
    \o (IF Blank(f.description) THEN <<"description">> ELSE <<>>)
    \o (IF Blank(f.brand) THEN <<"brand">> ELSE <<>>)
    \o (IF Blank(f.warranty) THEN <<"warranty">> ELSE <<>>)

NoVerdict ==
    [valid |-> FALSE, error_type |-> "", missing_fields |-> <<>>, errors |-> <<>>,
     warnings |-> <<>>, validated_data |-> None]

Error(field_result) == IF field_result.valid THEN <<>> ELSE <<field_result.error>>

Warning(field_result) ==
    IF field_result.valid /\ ~IsNone(field_result.warning) THEN <<field_result.warning[1]>> ELSE <<>>

\* f holds the keyword arguments: name, price, stock, category, description,
\* brand, warranty.
validate_add_product_request(f) ==
    IF missing_fields(f) # <<>>
       THEN [NoVerdict EXCEPT !.error_type = "missing_fields", !.missing_fields = missing_fields(f)]
    ELSE
    LET name_result == validate_product_name(f.name)
        price_result == validate_price(f.price)
        stock_result == validate_stock(f.stock)
        category_result == validate_category(f.category)
        description_result == validate_description(f.description)
        brand_result == validate_brand(f.brand)
        warranty_result == validate_warranty(f.warranty)
        errors == Error(name_result) \o Error(price_result) \o Error(stock_result)
                  \o Error(category_result)
                  \o (IF category_result.suggestions THEN <<"Valid categories">> ELSE <<>>)
                  \o Error(description_result) \o Error(brand_result)
                  \o Error(warranty_result)
                  \o (IF ~warranty_result.valid /\ ~IsNone(warranty_result.suggestion)
                         THEN <<warranty_result.suggestion[1]>> ELSE <<>>)
        warnings == Warning(price_result) \o Warning(stock_result)
                    \o (IF brand_result.valid /\ ~IsNone(brand_result.suggestion)
                           THEN <<brand_result.suggestion[1]>> ELSE <<>>)
    IN  IF errors # <<>>
           THEN [NoVerdict EXCEPT !.error_type = "validation_errors", !.errors = errors,
                                  !.warnings = warnings]
           ELSE [NoVerdict EXCEPT
                    !.valid = TRUE,
                    !.warnings = warnings,
                    !.validated_data =
                        Some([name |-> name_result.value[1], price |-> price_result.value[1],
                              stock |-> stock_result.value[1],
                              category |-> category_result.value[1],
                              description |-> description_result.value[1],
                              brand |-> brand_result.value[1],
                              warranty |-> warranty_result.value[1]])]

ValidatorPrices ==
    { Number(100), Number(30), Number(49), Number(50), Number(10000000), Number(10000001),
      Number(20000000), Number(0), Number(0 - 5), Text(<<"a", "b", "c">>), Text(<<"1", "2">>), Text(<<>>), PyNone }

ValidatorStocks == { Number(5), Number(0), Number(10000), Number(10001), Number(0 - 1), Text(<<"a", "b", "c">>) }

\* Records that differ from the complete one in price and stock, or in one
\* other field.
ValidatorInputs ==
    { [GoodFields EXCEPT !.price = p, !.stock = s] : p \in ValidatorPrices, s \in ValidatorStocks }
    \cup { [GoodFields EXCEPT !.name = n] : n \in { <<>>, <<"a", "b">>, <<"P", "h", "o", "n", "e">>, LongName } }
    \cup { [GoodFields EXCEPT !.category = c] : c \in { <<>>, <<" ", "e", "l", "e", "c", "t", "r", "o", "n", "i", "c", "s">>, <<"T", "o", "y", "s">> } }
    \cup { [GoodFields EXCEPT !.description = d] : d \in { <<>>, <<"s", "h", "o", "r", "t">>, <<"G", "o", "o", "d", " ", "P", "r", "o", "d", "u", "c", "t">> } }
    \cup { [GoodFields EXCEPT !.brand = b] : b \in { <<>>, <<"x">>, <<"s", "o", "n", "y">>, <<"4", "k", " ", "t", "e", "c", "h">> } }
    \cup { [GoodFields EXCEPT !.warranty = w] :
              w \in { <<>>, <<"2", " ", "Y", "e", "a", "r", "s">>, <<"1", "2", "m", "o", "n", "t", "h", "s">>, <<"L", "i", "f", "e", "t", "i", "m", "e">>, <<"s", "o", "o", "n">>, <<"6", " ", "w", "e", "e", "k", "s">> } }

InitValidator ==
    /\ \E f \in ValidatorInputs : request = Request(0, "start", "", <<>>, f, NoUpdates)
    /\ reply = NoReply
    /\ products = <<>>
    /\ payments = <<>>
    /\ orders = <<>>
    /\ op = Call("start", "", None, None, None)
    /\ result = NoResult
    /\ phone_in = None
    /\ phone_out = None
    /\ phone_again = None
    /\ calls = <<>>

ValidatePrice ==
    /\ request.name = "start"
    /\ request' = [request EXCEPT !.n = 1, !.name = "validate_price"]
    /\ reply' = validate_price(request.fields.price)
    /\ UNCHANGED <<products, store_vars, phone_vars, race_vars>>

ValidateStock ==
    /\ request.name = "start"
    /\ request' = [request EXCEPT !.n = 1, !.name = "validate_stock"]
    /\ reply' = validate_stock(request.fields.stock)
    /\ UNCHANGED <<products, store_vars, phone_vars, race_vars>>

ValidateAddProductRequest ==
    /\ request.name = "start"
    /\ request' = [request EXCEPT !.n = 1, !.name = "validate_add_product_request"]
    /\ reply' = validate_add_product_request(request.fields)
    /\ UNCHANGED <<products, store_vars, phone_vars, race_vars>>

NextValidator == ValidatePrice \/ ValidateStock \/ ValidateAddProductRequest

SpecValidator == InitValidator /\ [][NextValidator]_vars

-----------------------------------------------------------------------------
(* complete and cancel on one payment, reads and writes interleaved        *)

Callers == 1..MaxCallers

RacePaymentId == FormatPaymentId(1)

Idle == [pc |-> "idle", name |-> "", force_success |-> None, payments |-> <<>>, confirms |-> FALSE, success |-> FALSE, error_type |-> ""]

InitRace ==
    LET stored == << new_order("ORD001", PhonePlus, 35000, datetime_now) >>
        started == CHOOSE out \in
                      { initiate_mpesa_payment_handler(<<>>, stored, "ORD001", Phone07,
                                                       delay, datetime_now) :
                            delay \in get_processing_delay } : TRUE
    IN  /\ payments = started.payments
        /\ orders = started.orders
        /\ op = Call("initiate", "ORD001", None, Phone07, None)
        /\ result = started.result
        /\ phone_in = None
        /\ phone_out = None
        /\ phone_again = None
        /\ calls = [c \in Callers |-> Idle]
        /\ products = <<>>
        /\ request = None
        /\ reply = None

Refused(name, force_success, error_type) == [Idle EXCEPT !.pc = "done", !.name = name, !.force_success = force_success, !.error_type = error_type]

Loaded(name, force_success, pays, confirms) == [Idle EXCEPT !.pc = "loaded", !.name = name, !.force_success = force_success, !.payments = pays, !.confirms = confirms]

\* db.load_json('payments'), the state check and the update of the loaded
\* list, which touch no file between them.
LoadForComplete(c) ==
    /\ calls[c].pc = "idle"
    /\ \E force_success \in ForceSuccess, draw \in simulate_payment_outcome,
          transaction_id \in generate_transaction_id, reason \in failure_reasons :
          LET i == PaymentIndex(payments, RacePaymentId)
              success == payment_outcome(force_success, draw)
              updated == IF success
                            THEN completed_payment(payments[i], transaction_id, datetime_now)
                            ELSE failed_payment(payments[i], reason, datetime_now)
          IN  calls' = [calls EXCEPT ![c] =
                  IF i = 0 THEN Refused("complete", force_success, "payment_not_found")
                  ELSE IF ~can_complete(payments[i].status)
                          THEN Refused("complete", force_success, "invalid_state")
                  ELSE Loaded("complete", force_success, [payments EXCEPT ![i] = updated], success)]
    /\ UNCHANGED <<payments, orders, op, result>>
    /\ UNCHANGED phone_vars
    /\ UNCHANGED catalog_vars

LoadForCancel(c) ==
    /\ calls[c].pc = "idle"
    /\ LET i == PaymentIndex(payments, RacePaymentId) IN
          calls' = [calls EXCEPT ![c] =
              IF i = 0 THEN Refused("cancel", None, "payment_not_found")
              ELSE IF ~can_cancel(payments[i].status)
                      THEN Refused("cancel", None, "cannot_cancel")
              ELSE Loaded("cancel", None,
                          [payments EXCEPT ![i] = cancelled_payment(payments[i], datetime_now)],
                          FALSE)]
    /\ UNCHANGED <<payments, orders, op, result>>
    /\ UNCHANGED phone_vars
    /\ UNCHANGED catalog_vars

\* The order writes of a successful completion, made before payments.json
\* is saved.
ConfirmOrder(c) ==
    /\ calls[c].pc = "loaded"
    /\ calls[c].confirms
    /\ LET i == PaymentIndex(calls[c].payments, RacePaymentId) IN
          orders' = confirm_order(orders, calls[c].payments[i].order_id,
                                  RacePaymentId, datetime_now)
    /\ calls' = [calls EXCEPT ![c].pc = "confirmed"]
    /\ UNCHANGED <<payments, op, result>>
    /\ UNCHANGED phone_vars
    /\ UNCHANGED catalog_vars

\* db.save_json('payments', payments) writes the whole loaded list back and
\* the call returns success.
SavePayments(c) ==
    /\ \/ calls[c].pc = "loaded" /\ ~calls[c].confirms
       \/ calls[c].pc = "confirmed"
    /\ payments' = calls[c].payments
    /\ calls' = [calls EXCEPT ![c].pc = "done", ![c].success = TRUE]
    /\ UNCHANGED <<orders, op, result>>
    /\ UNCHANGED phone_vars
    /\ UNCHANGED catalog_vars

NextRace ==
    \E c \in Callers :
        LoadForComplete(c) \/ LoadForCancel(c) \/ ConfirmOrder(c) \/ SavePayments(c)

SpecRace == InitRace /\ [][NextRace]_vars

-----------------------------------------------------------------------------
(* initiate for different orders, reads and writes interleaved             *)

RaceOrderIds == <<"ORD001", "ORD002", "ORD003", "ORD004">>

RacePhones == {None, Phone07, PhoneBad}

Waiting == [pc |-> "idle", order_id |-> "", customer_phone |-> None, payments |-> <<>>, orders |-> <<>>, success |-> FALSE, error_type |-> "", payment_id |-> None]

\* One unpaid order for each caller, all of one customer, and no payment.
InitInitiateRace ==
    /\ payments = <<>>
    /\ orders = [c \in Callers |-> new_order(RaceOrderIds[c], PhonePlus, 35000, datetime_now)]
    /\ op = Call("start", "", None, None, None)
    /\ result = NoResult
    /\ phone_in = None
    /\ phone_out = None
    /\ phone_again = None
    /\ calls = [c \in Callers |-> Waiting]
    /\ products = <<>>
    /\ request = None
    /\ reply = None

\* The validation, db.load_json('payments'), the new id and the record
\* appended to the loaded list. The validation reads the order's
\* payment_status and phone, which no initiate writes.
LoadForInitiate(c) ==
    /\ calls[c].pc = "idle"
    /\ \E customer_phone \in RacePhones, delay \in get_processing_delay :
          LET out == initiate_mpesa_payment_handler(payments, orders, RaceOrderIds[c],
                                                    customer_phone, delay, datetime_now)
          IN  calls' = [calls EXCEPT ![c] =
                  IF ~out.result.success
                     THEN [Waiting EXCEPT !.pc = "done", !.order_id = RaceOrderIds[c],
                                          !.customer_phone = customer_phone,
                                          !.error_type = out.result.error_type]
                     ELSE [Waiting EXCEPT !.pc = "loaded", !.order_id = RaceOrderIds[c],
                                          !.customer_phone = customer_phone,
                                          !.payments = out.payments,
                                          !.payment_id = out.result.payment_id]]
    /\ UNCHANGED <<payments, orders, op, result>>
    /\ UNCHANGED phone_vars
    /\ UNCHANGED catalog_vars

\* db.save_json('payments', payments) writes the whole loaded list back.
SaveNewPayment(c) ==
    /\ calls[c].pc = "loaded"
    /\ payments' = calls[c].payments
    /\ calls' = [calls EXCEPT ![c].pc = "saved"]
    /\ UNCHANGED <<orders, op, result>>
    /\ UNCHANGED phone_vars
    /\ UNCHANGED catalog_vars

\* update_order_status reads the orders and sets the status in its copy.
LoadOrders(c) ==
    /\ calls[c].pc = "saved"
    /\ calls' = [calls EXCEPT ![c].pc = "orders_loaded",
                              ![c].orders = update_order_status(orders, calls[c].order_id,
                                                                "payment_pending", datetime_now)]
    /\ UNCHANGED <<payments, orders, op, result>>
    /\ UNCHANGED phone_vars
    /\ UNCHANGED catalog_vars

\* update_order_status saves its copy of the orders, and the call returns
\* success with its payment_id.
SaveOrders(c) ==
    /\ calls[c].pc = "orders_loaded"
    /\ orders' = calls[c].orders
    /\ calls' = [calls EXCEPT ![c].pc = "done", ![c].success = TRUE]
    /\ UNCHANGED <<payments, op, result>>
    /\ UNCHANGED phone_vars
    /\ UNCHANGED catalog_vars

NextInitiateRace ==
    \E c \in Callers :
        LoadForInitiate(c) \/ SaveNewPayment(c) \/ LoadOrders(c) \/ SaveOrders(c)

SpecInitiateRace == InitInitiateRace /\ [][NextInitiateRace]_vars

-----------------------------------------------------------------------------
(* Properties of the payment state machine                                 *)

Active == {"pending", "processing"}

Terminal == {"completed", "failed", "cancelled"}

\* In a step, the stored payment the call just made names (0 when none).
Target == PaymentIndex(payments, op'.payment_id)

\* In a step, the stored order the call just made names (0 when none).
TargetOrder == OrderIndex(orders, op'.order_id)

StoreUnchanged == payments' = payments /\ orders' = orders

OthersUnchanged(i) ==
    /\ Len(payments') = Len(payments)
    /\ \A j \in 1..Len(payments) : j # i => payments'[j] = payments[j]

PlusPrefix == <<"+", "2", "5", "4">>

\* C1: complete on a payment stored as completed, failed or cancelled returns
\* success=False with error_type invalid_state, cancel on it returns
\* success=False with error_type cannot_cancel, and neither call changes the
\* payments or the orders collection.
C1_TerminalPaymentImmutable ==
    [][ (Target # 0 /\ payments[Target].status \in Terminal) =>
          /\ op'.name = "complete" =>
                /\ ~result'.success
                /\ result'.error_type = "invalid_state"
                /\ StoreUnchanged
          /\ op'.name = "cancel" =>
                /\ ~result'.success
                /\ result'.error_type = "cannot_cancel"
                /\ StoreUnchanged ]_vars

\* C1 witness: a complete was refused on a payment that an earlier cancel had
\* cancelled, and the payment is still cancelled.
C1_CompleteAfterCancelRefused ==
    /\ op.name = "complete"
    /\ result.error_type = "invalid_state"
    /\ PaymentIndex(payments, op.payment_id) # 0
    /\ payments[PaymentIndex(payments, op.payment_id)].status = "cancelled"

\* C2: no order has more than one payment record with status completed.
C2_AtMostOneCompletedPerOrder ==
    \A i, j \in 1..Len(payments) :
        ( /\ i # j
          /\ payments[i].order_id = payments[j].order_id
          /\ payments[i].status = "completed" )
        => payments[j].status # "completed"

\* C3: initiate on an order whose payment_status is completed returns
\* success=False with error_type already_paid and the order's payment_id,
\* appends no payment record and changes no order, on every such call.
C3_InitiateOnPaidOrderRefused ==
    [][ ( /\ op'.name = "initiate"
          /\ TargetOrder # 0
          /\ orders[TargetOrder].payment_status = "completed" ) =>
          /\ ~result'.success
          /\ result'.error_type = "already_paid"
          /\ ~IsNone(result'.existing_payment)
          /\ result'.existing_payment = orders[TargetOrder].payment_id
          /\ StoreUnchanged ]_vars

\* C3 witness: an initiate was refused as already_paid, naming a stored
\* completed payment of the order.
C3_AlreadyPaidReturned ==
    /\ op.name = "initiate"
    /\ result.error_type = "already_paid"
    /\ \E i \in 1..Len(payments) :
          /\ result.existing_payment = Some(payments[i].payment_id)
          /\ payments[i].order_id = op.order_id
          /\ payments[i].status = "completed"

\* C4: complete with force_success=True on a pending or processing payment
\* whose order exists leaves the payment completed with a transaction_id and a
\* completed_at, and its order confirmed, with payment_status completed and
\* payment_id the payment's id.
C4_ForcedSuccessCascades ==
    [][ ( /\ op'.name = "complete"
          /\ op'.force_success = Some(TRUE)
          /\ Target # 0
          /\ payments[Target].status \in Active
          /\ OrderIndex(orders, payments[Target].order_id) # 0 ) =>
          LET k == OrderIndex(orders, payments[Target].order_id) IN
          /\ payments'[Target].status = "completed"
          /\ ~IsNone(payments'[Target].transaction_id)
          /\ ~IsNone(payments'[Target].completed_at)
          /\ orders'[k].status = "confirmed"
          /\ orders'[k].payment_status = "completed"
          /\ orders'[k].payment_id = Some(op'.payment_id) ]_vars

\* C4 witness: a forced-success complete has just completed a payment and
\* confirmed its order.
C4_ForcedSuccessDone ==
    /\ op.name = "complete"
    /\ op.force_success = Some(TRUE)
    /\ result.success
    /\ \E i \in 1..Len(payments), k \in 1..Len(orders) :
          /\ payments[i].payment_id = op.payment_id
          /\ payments[i].status = "completed"
          /\ orders[k].id = payments[i].order_id
          /\ orders[k].status = "confirmed"
          /\ orders[k].payment_id = Some(op.payment_id)

\* C5: each order has at most one payment record whose status is pending or
\* processing.
C5_AtMostOneActivePerOrder ==
    \A i, j \in 1..Len(payments) :
        ( /\ i # j
          /\ payments[i].order_id = payments[j].order_id
          /\ payments[i].status \in Active )
        => payments[j].status \notin Active

\* C6: a successful initiate appends exactly one payment record, which is
\* pending, has no transaction_id and no completed_at, carries the given
\* order_id, the phone in normalized +254 form and the order's grand_total,
\* sets that order's status to payment_pending and leaves the other orders
\* alone, and returns the payment_id of that record and of no other.
C6_InitiateAppendsPending ==
    [][ (op'.name = "initiate" /\ result'.success) =>
          /\ TargetOrder # 0
          /\ Len(payments') = Len(payments) + 1
          /\ SubSeq(payments', 1, Len(payments)) = payments
          /\ LET p == payments'[Len(payments')] IN
                /\ p.status = "pending"
                /\ IsNone(p.transaction_id)
                /\ IsNone(p.completed_at)
                /\ p.order_id = op'.order_id
                /\ StartsWith(p.customer_phone, PlusPrefix)
                /\ \A n \in 1..Len(p.customer_phone) :
                      p.customer_phone[n] \notin {" ", "-"}
                /\ p.amount = orders[TargetOrder].grand_total
                /\ result'.payment_id = Some(p.payment_id)
                /\ \A j \in 1..Len(payments) : payments[j].payment_id # p.payment_id
          /\ orders'[TargetOrder].status = "payment_pending"
          /\ \A k \in 1..Len(orders) : k # TargetOrder => orders'[k] = orders[k]
          /\ Len(orders') = Len(orders) ]_vars

\* C6 witness: an initiate given the phone as 07... succeeded and stored it as
\* +254..., with the order's amount, on an order now payment_pending.
C6_InitiatedWithLocalPhone ==
    /\ op.name = "initiate"
    /\ op.customer_phone = Phone07
    /\ result.success
    /\ Len(payments) > 0
    /\ payments[Len(payments)].customer_phone = PhonePlus
    /\ payments[Len(payments)].amount = 35000
    /\ payments[Len(payments)].status = "pending"
    /\ result.payment_id = Some(payments[Len(payments)].payment_id)

AllowedEdges ==
    { <<"pending", "processing">>, <<"pending", "completed">>,
      <<"pending", "failed">>, <<"pending", "cancelled">>,
      <<"processing", "completed">>, <<"processing", "failed">>,
      <<"processing", "cancelled">>, <<"pending", "expired">> }

\* C7: every payment record is created pending, no record is removed or
\* renamed, and a stored payment's status changes only along the allowed
\* edges.
C7_StatusEdges ==
    [][ /\ Len(payments') >= Len(payments)
        /\ \A i \in 1..Len(payments) :
              /\ payments'[i].payment_id = payments[i].payment_id
              /\ payments'[i].status # payments[i].status =>
                    <<payments[i].status, payments'[i].status>> \in AllowedEdges
        /\ \A i \in (Len(payments) + 1)..Len(payments') :
              payments'[i].status = "pending" ]_vars

\* C7 witness: the store holds a payment that went pending -> failed and one
\* that went pending -> completed.
C7_FailedAndCompletedStored ==
    \E i, j \in 1..Len(payments) :
        /\ payments[i].status = "failed"
        /\ payments[j].status = "completed"

\* C9: a successful cancel acted on a pending or processing payment, sets it
\* to cancelled with a completed_at, and leaves every other payment record and
\* every order unchanged; cancel on a pending or processing payment succeeds.
C9_CancelFrame ==
    [][ /\ (op'.name = "cancel" /\ result'.success) =>
              /\ Target # 0
              /\ payments[Target].status \in Active
              /\ payments'[Target].status = "cancelled"
              /\ ~IsNone(payments'[Target].completed_at)
              /\ payments'[Target].payment_id = payments[Target].payment_id
              /\ payments'[Target].order_id = payments[Target].order_id
              /\ payments'[Target].amount = payments[Target].amount
              /\ IsNone(payments'[Target].transaction_id)
              /\ OthersUnchanged(Target)
              /\ orders' = orders
        /\ ( /\ op'.name = "cancel"
             /\ Target # 0
             /\ payments[Target].status \in Active ) => result'.success ]_vars

\* C9 witness: a cancel succeeded while another payment was stored, and the
\* cancelled payment's order is still payment_pending.
C9_CancelledBesideAnother ==
    /\ op.name = "cancel"
    /\ result.success
    /\ Len(payments) = 2
    /\ \E i \in 1..Len(payments), k \in 1..Len(orders) :
          /\ payments[i].payment_id = op.payment_id
          /\ payments[i].status = "cancelled"
          /\ orders[k].id = payments[i].order_id
          /\ orders[k].status = "payment_pending"
          /\ orders[k].payment_status = "pending"

\* C10: complete with force_success=False on a pending or processing payment
\* sets it to failed with no transaction_id and leaves every order and every
\* other payment record unchanged; whenever force_success is supplied the
\* reported outcome is its value.
C10_ForcedFailureFrame ==
    [][ /\ ( /\ op'.name = "complete"
             /\ op'.force_success = Some(FALSE)
             /\ Target # 0
             /\ payments[Target].status \in Active ) =>
              /\ payments'[Target].status = "failed"
              /\ IsNone(payments'[Target].transaction_id)
              /\ OthersUnchanged(Target)
              /\ orders' = orders
              /\ result'.success
        /\ ( /\ op'.name = "complete"
             /\ ~IsNone(op'.force_success)
             /\ result'.success ) =>
              /\ result'.payment_success = op'.force_success
              /\ Target # 0
              /\ payments'[Target].status =
                    IF op'.force_success[1] THEN "completed" ELSE "failed" ]_vars

\* C10 witness: a complete with force_success=False has just failed a payment
\* whose order is untouched.
C10_ForcedFailureDone ==
    /\ op.name = "complete"
    /\ op.force_success = Some(FALSE)
    /\ result.success
    /\ result.payment_success = Some(FALSE)
    /\ \E i \in 1..Len(payments), k \in 1..Len(orders) :
          /\ payments[i].payment_id = op.payment_id
          /\ payments[i].status = "failed"
          /\ IsNone(payments[i].transaction_id)
          /\ orders[k].id = payments[i].order_id
          /\ orders[k].status = "payment_pending"

-----------------------------------------------------------------------------
(* retry, the confirmation code, the error categories                      *)

PreviousAttempts == previous_payments(payments, op'.order_id)

RetryPhone ==
    IF Len(PreviousAttempts) > 0 /\ IsNone(op'.customer_phone)
       THEN PreviousAttempts[Len(PreviousAttempts)].customer_phone
       ELSE op'.customer_phone

\* C11: retry never modifies an existing payment record: on success it
\* appends exactly one pending payment for the order and leaves every earlier
\* record unchanged, on failure it leaves the store unchanged; with no phone
\* supplied the new record carries the customer_phone of the last failed,
\* cancelled or expired payment of the order; the stored state is the one
\* initiate produces, whatever the number of previous attempts.
C11_RetryFrame ==
    [][ op'.name = "retry" =>
          /\ Len(payments') >= Len(payments)
          /\ SubSeq(payments', 1, Len(payments)) = payments
          /\ result'.success =>
                /\ Len(payments') = Len(payments) + 1
                /\ payments'[Len(payments')].status = "pending"
                /\ payments'[Len(payments')].order_id = op'.order_id
                /\ result'.payment_id = Some(payments'[Len(payments')].payment_id)
                /\ ( IsNone(op'.customer_phone) /\ Len(PreviousAttempts) > 0 ) =>
                      payments'[Len(payments')].customer_phone =
                         PreviousAttempts[Len(PreviousAttempts)].customer_phone
          /\ ~result'.success => StoreUnchanged
          /\ \E delay \in get_processing_delay :
                LET out == initiate_mpesa_payment_handler(payments, orders,
                               op'.order_id, RetryPhone, delay, datetime_now)
                IN  payments' = out.payments /\ orders' = out.orders ]_vars

\* C11 witness: a retry without a phone has just appended a pending payment
\* behind a failed or cancelled one of the same order, with the same phone.
C11_RetriedAfterFailure ==
    /\ op.name = "retry"
    /\ IsNone(op.customer_phone)
    /\ result.success
    /\ Len(payments) = 2
    /\ payments[1].status \in {"failed", "cancelled"}
    /\ payments[1].order_id = op.order_id
    /\ payments[2].order_id = op.order_id
    /\ payments[2].status = "pending"
    /\ payments[2].customer_phone = payments[1].customer_phone

\* C12: in every reachable state a payment record has a transaction_id
\* exactly when its status is completed.
C12_TransactionIdIffCompleted ==
    \A i \in 1..Len(payments) :
        ~IsNone(payments[i].transaction_id) <=> payments[i].status = "completed"

\* C12 witness: a completed payment with its code beside a failed or
\* cancelled one without.
C12_CompletedBesideUncompleted ==
    \E i, j \in 1..Len(payments) :
        /\ payments[i].status = "completed"
        /\ payments[i].transaction_id = Some("QK7A9B2C3D")
        /\ payments[j].status \in {"failed", "cancelled"}
        /\ IsNone(payments[j].transaction_id)

ErrorTypes ==
    {"order_not_found", "already_paid", "invalid_phone", "phone_mismatch",
     "payment_not_found", "invalid_state", "cannot_cancel", "database_error",
     "system_error"}

\* C13: every initiate, check status, complete, cancel or retry that returns
\* success=False carries one of the nine listed error types, and an initiate
\* on an order id that is not in the store returns order_not_found whether
\* or not a phone is supplied.
C13_ErrorTypesClosed ==
    /\ ( /\ op.name \in {"initiate", "check_status", "complete", "cancel", "retry"}
         /\ ~result.success ) => result.error_type \in ErrorTypes
    /\ ( op.name = "initiate" /\ op.order_id = "ORD404" ) =>
          ~result.success /\ result.error_type = "order_not_found"

-----------------------------------------------------------------------------
(* Interleaved complete and cancel                                         *)

RaceTarget == PaymentIndex(payments, RacePaymentId)

\* C14: when a complete and a cancel, or two completes, on the same pending
\* payment have their load and save steps interleaved, at most one of the
\* calls returns success, and once all have returned the stored status is
\* the one written by the call that succeeded.
C14_AtMostOneSucceeds ==
    ( \A c \in Callers : calls[c].pc = "done" ) =>
        /\ Cardinality({ c \in Callers : calls[c].success }) <= 1
        /\ \A c \in Callers :
              calls[c].success =>
                 payments[RaceTarget].status = calls[c].payments[RaceTarget].status

-----------------------------------------------------------------------------
(* Properties of the product resolver and of add_product_handler           *)

\* In a step, what the resolver makes of the reference the call names.
Resolution ==
    validate_product_reference(products, request'.product_identifier, request'.business_id)

\* The products of a business that are active, as the context lists them.
ActiveSummaries(prods, business_id) ==
    { summary(prods[i]) : i \in { j \in 1..Len(prods) :
                                     /\ prods[j].business_id = business_id
                                     /\ prods[j].status = "active" } }

Listed(available_products) == { available_products[i] : i \in 1..Len(available_products) }

\* The resolution order as stated: the business's product with that id when
\* the identifier is all digits, otherwise the business's first product in
\* store order whose name contains the identifier case-insensitively,
\* otherwise nothing.
ExpectedProduct(prods, identifier, business_id) ==
    LET mine == { i \in 1..Len(prods) : prods[i].business_id = business_id }
        with_id == { i \in mine : prods[i].id = identifier }
        with_name == { i \in mine : Contains(Lower(prods[i].name), Lower(identifier)) }
        First(S) == prods[CHOOSE i \in S : \A j \in S : i <= j]
    IN  IF IsDigit(identifier) /\ with_id # {} THEN Some(First(with_id))
        ELSE IF with_name # {} THEN Some(First(with_name))
        ELSE None

\* A record that fails the validation of a required field.
FailsRequiredField(f) ==
    \/ Blank(f.name) \/ Len(Strip(f.name)) < 3 \/ Len(Strip(f.name)) > 100
    \/ float(f.price).raised \/ float(f.price).value <= 0
    \/ int(f.stock).raised \/ int(f.stock).value < 0
    \/ Blank(f.category)

\* C15: validate_product_reference never returns a product whose business_id
\* differs from the requested one; an all-digit identifier that is the id of
\* another business's product gives exists=False with a context when no
\* product name of the requested business contains it.
C15_NeverAnotherBusiness ==
    request.name = "validate_product_reference" =>
        /\ reply.exists => reply.product[1].business_id = request.business_id
        /\ ( /\ IsDigit(request.product_identifier)
             /\ \A i \in 1..Len(products) :
                   products[i].business_id = request.business_id =>
                      /\ products[i].id # request.product_identifier
                      /\ ~Contains(Lower(products[i].name), Lower(request.product_identifier)) )
           => ~reply.exists /\ ~IsNone(reply.context)

\* C16: whenever resolution fails the context is not None; update and delete
\* on a reference that does not resolve return success=False with error_type
\* product_not_found and a context whose available_products are exactly the
\* active products of that business, and leave the products unchanged.
C16_NotFoundContext ==
    [][ /\ ( request'.name = "validate_product_reference" /\ ~reply'.exists ) =>
              ~IsNone(reply'.context)
        /\ ( request'.name \in {"update_product", "delete_product"} /\ ~Resolution.exists ) =>
              /\ ~reply'.success
              /\ reply'.error_type = "product_not_found"
              /\ ~IsNone(reply'.context)
              /\ Listed(reply'.context[1].available_products) =
                    ActiveSummaries(products, request'.business_id)
              /\ Len(reply'.context[1].available_products) =
                    Cardinality(ActiveSummaries(products, request'.business_id))
              /\ products' = products ]_vars

\* C16 witness: an update of a reference that no product of biz_a matches has
\* been refused with the one active product of biz_a listed, while biz_a
\* owns an inactive product too.
C16_UpdateOfUnknownRefused ==
    /\ request.name = "update_product"
    /\ request.business_id = "biz_a"
    /\ reply.error_type = "product_not_found"
    /\ ~IsNone(reply.context)
    /\ Len(reply.context[1].available_products) = 1
    /\ reply.context[1].total_products = 2
    /\ \E i \in 1..Len(products) :
          products[i].business_id = "biz_a" /\ products[i].status = "inactive"

\* C17: validate_product_reference returns the business's product with the
\* identifier as id when the identifier is all digits, otherwise the first
\* product in store order, among the business's products, whose name
\* contains the identifier case-insensitively, otherwise exists=False.
C17_ResolutionOrder ==
    request.name = "validate_product_reference" =>
        /\ reply.product =
              ExpectedProduct(products, request.product_identifier, request.business_id)
        /\ reply.exists = ~IsNone(reply.product)

\* C18: an add_product_handler call whose record fails the validation of a
\* required field leaves the products unchanged and returns success=False
\* with a non-empty list of validation errors.
C18_InvalidRecordRefused ==
    [][ ( /\ request'.name = "add_product"
          /\ request'.business_id \in Businesses
          /\ FailsRequiredField(request'.fields) ) =>
              /\ products' = products
              /\ ~reply'.success
              /\ reply'.validation_errors # <<>> ]_vars

\* C19: validate_product_data never raises: whatever the inputs, a price or
\* stock that cannot be coerced included, it returns valid=False with the
\* failure in errors, and add_product_handler reports validation_error and
\* never system_error.
C19_ValidationNeverRaises ==
    request.name = "add_product" =>
        LET f == request.fields
            validation == validate_product_data(f.name, f.price, f.stock, f.category,
                                                f.description, f.brand, f.warranty)
        IN  /\ ~validation.raised
            /\ ( float(f.price).raised \/ int(f.stock).raised ) =>
                  ~validation.valid /\ validation.errors # <<>>
            /\ reply.error_type # "system_error"
            /\ ( request.business_id \in Businesses /\ FailsRequiredField(f) ) =>
                  reply.error_type = "validation_error"

\* C20: add_product_handler requires all seven fields: a record whose
\* description, brand or warranty is empty, or whose category is not in the
\* allowed list, is refused with success=False and nothing is persisted.
C20_AllSevenRequired ==
    [][ ( /\ request'.name = "add_product"
          /\ \/ Blank(request'.fields.description)
             \/ Blank(request'.fields.brand)
             \/ Blank(request'.fields.warranty)
             \/ Strip(request'.fields.category) \notin valid_categories ) =>
              /\ ~reply'.success
              /\ products' = products ]_vars

-----------------------------------------------------------------------------
(* Properties of the catalogue's names, stocks and prices                  *)

\* The positions of the business's products whose name equals the given one,
\* ignoring case.
Named(prods, business_id, name) ==
    { i \in 1..Len(prods) : /\ prods[i].business_id = business_id
                            /\ Lower(prods[i].name) = Lower(name) }

\* In a step, the validation of the record an add_product call carries.
RecordValidation ==
    LET f == request'.fields
    IN  validate_product_data(f.name, f.price, f.stock, f.category,
                              f.description, f.brand, f.warranty)

\* In a step, the name under which an add_product call would store its record.
NewName == Strip(request'.fields.name)

\* C21: add_product_handler with a valid record whose name equals, ignoring
\* case, the name of a product stored for the same business returns
\* success=False with error_type duplicate_product and that existing
\* product, and the store still holds exactly one product of that name for
\* the business.
C21_DuplicateNameRefused ==
    [][ ( /\ request'.name = "add_product"
          /\ request'.business_id \in Businesses
          /\ ~RecordValidation.raised
          /\ RecordValidation.valid
          /\ Named(products, request'.business_id, NewName) # {} ) =>
              /\ ~reply'.success
              /\ reply'.error_type = "duplicate_product"
              /\ ~IsNone(reply'.product)
              /\ reply'.product[1].business_id = request'.business_id
              /\ Lower(reply'.product[1].name) = Lower(NewName)
              /\ Cardinality(Named(products', request'.business_id, NewName)) = 1 ]_vars

\* C22: no two products of the same business have names that are equal
\* ignoring case.
C22_NamesUniquePerBusiness ==
    \A i, j \in 1..Len(products) :
        ( i # j /\ products[i].business_id = products[j].business_id ) =>
            Lower(products[i].name) # Lower(products[j].name)

\* Every field an update supplies passes the checks update_product_handler
\* makes on it.
SuppliedValid(u) ==
    /\ ~IsNone(u.name) => ~Blank(u.name[1]) /\ Len(Strip(u.name[1])) >= 3
    /\ ~IsNone(u.price) => ~float(u.price[1]).raised /\ float(u.price[1]).value > 0
    /\ ~IsNone(u.stock) => ~int(u.stock[1]).raised /\ int(u.stock[1]).value >= 0

\* The value a field holds after an update: the supplied one, or the old one.
After(supplied, old) == IF IsNone(supplied) THEN old ELSE supplied[1]

Stripped(supplied) == IF IsNone(supplied) THEN None ELSE Some(Strip(supplied[1]))

Coerced(supplied) == IF IsNone(supplied) THEN None ELSE Some(float(supplied[1]).value)

\* The first position in the store of the product with the given id.
Position(prods, id) ==
    CHOOSE i \in 1..Len(prods) : prods[i].id = id /\ \A j \in 1..(i - 1) : prods[j].id # id

\* C25: update_product_handler is partial and all-or-nothing: when every
\* supplied field is valid exactly the supplied fields of the resolved product
\* change (and updated_at), every other field and every other product staying
\* as it was; when a supplied field is invalid it returns validation_error
\* and the products are unchanged.
C25_PartialAllOrNothing ==
    [][ ( /\ request'.name = "update_product"
          /\ Resolution.exists
          /\ request'.updates # NoUpdates ) =>
          \A i \in { Position(products, Resolution.product[1].id) } :
          LET u == request'.updates
              old == products[i]
              new == products'[i]
          IN  IF SuppliedValid(u)
                 THEN /\ reply'.success
                      /\ Len(products') = Len(products)
                      /\ \A j \in 1..Len(products) : j # i => products'[j] = products[j]
                      /\ new.name = After(Stripped(u.name), old.name)
                      /\ new.price = After(Coerced(u.price), old.price)
                      /\ new.stock = After(Coerced(u.stock), old.stock)
                      /\ new.category = After(Stripped(u.category), old.category)
                      /\ new.description = After(Stripped(u.description), old.description)
                      /\ new.brand = After(Stripped(u.brand), old.brand)
                      /\ new.warranty = After(Stripped(u.warranty), old.warranty)
                      /\ new.id = old.id
                      /\ new.business_id = old.business_id
                      /\ new.sku = old.sku
                      /\ new.status = old.status
                      /\ new.created_at = old.created_at
                      /\ new.updated_at = datetime_now
                 ELSE /\ ~reply'.success
                      /\ reply'.error_type = "validation_error"
                      /\ products' = products ]_vars

\* C25 witness: an update of stock and brand has been stored on product 1,
\* whose price and name are the ones it had.
C25_StockAndBrandUpdated ==
    /\ request.name = "update_product"
    /\ ~IsNone(request.updates.stock)
    /\ ~IsNone(request.updates.brand)
    /\ reply.success
    /\ \E i \in 1..Len(products) :
          /\ products[i].id = <<"1">>
          /\ products[i].stock = 12
          /\ products[i].brand = Generic
          /\ products[i].price = 100
          /\ products[i].name = Tv2

\* The errors the validation of add_product_handler finds in the fields an
\* update supplies.
AddErrors(u) ==
    (IF IsNone(u.name) THEN <<>> ELSE name_errors(u.name[1]))
    \o (IF IsNone(u.price) THEN <<>> ELSE price_errors(u.price[1]))
    \o (IF IsNone(u.stock) THEN <<>> ELSE stock_errors(u.stock[1]))
    \o (IF IsNone(u.category) THEN <<>> ELSE category_errors(u.category[1]))

\* C26: update_product_handler validates each supplied field with the rules
\* of add_product_handler: a value of a field that add rejects with a
\* validation error is rejected by update too, and is not persisted.
C26_UpdateAppliesAddRules ==
    [][ ( /\ request'.name = "update_product"
          /\ Resolution.exists
          /\ AddErrors(request'.updates) # <<>> ) =>
              /\ ~reply'.success
              /\ products' = products ]_vars

\* The store without the product at position i.
Without(prods, i) == SubSeq(prods, 1, i - 1) \o SubSeq(prods, i + 1, Len(prods))

\* C27: delete_product_handler on an identifier that resolves deletes without
\* asking, whatever the product's stock or value: afterwards the resolved
\* product is absent and every other product is unchanged, exactly one record
\* is gone, the removed product belonged to the requested business, and the
\* result's data is the product as it was before the deletion.
C27_DeleteFrame ==
    [][ ( request'.name = "delete_product" /\ Resolution.exists ) =>
          \A i \in { Position(products, Resolution.product[1].id) } :
              /\ reply'.success
              /\ products' = Without(products, i)
              /\ Len(products') = Len(products) - 1
              /\ \A j \in 1..Len(products') : products'[j].id # products[i].id
              /\ products[i].business_id = request'.business_id
              /\ reply'.data = Some(products[i]) ]_vars

\* C23: every stored product has a stock of at least 0, also after an order
\* whose items name the same product more than once.
C23_StocksNotNegative ==
    \A i \in 1..Len(products) : products[i].stock >= 0

\* C24: every stored product has a price greater than 0.
C24_PricesPositive ==
    \A i \in 1..Len(products) : products[i].price > 0

-----------------------------------------------------------------------------
(* Properties of place_order_handler                                       *)

\* The customer details that place_order_handler lets through to the items.
CustomerAccepted(phone) ==
    \/ StartsWith(Strip(phone), <<"+", "2", "5", "4">>)
    \/ StartsWith(Strip(phone), <<"0", "7">>)
    \/ StartsWith(Strip(phone), <<"0", "1">>)

\* An item is rejected: its quantity is no positive whole number, its product
\* is unknown or inactive, its quantity is above the product's current stock,
\* or its product belongs to another business than the first item's.
ItemRejected(prods, order_items, i) ==
    \/ int(order_items[i].quantity).raised
    \/ int(order_items[i].quantity).value <= 0
    \/ IsNone(get_product_by_id(prods, order_items[i].product_id))
    \/ get_product_by_id(prods, order_items[i].product_id)[1].status # "active"
    \/ int(order_items[i].quantity).value > get_product_by_id(prods, order_items[i].product_id)[1].stock
    \/ /\ ~IsNone(get_product_by_id(prods, order_items[1].product_id))
       /\ get_product_by_id(prods, order_items[1].product_id)[1].business_id #
             get_product_by_id(prods, order_items[i].product_id)[1].business_id

\* The total quantity an order asks of one product.
RECURSIVE TotalOrdered(_, _)
TotalOrdered(order_items, product_id) ==
    IF order_items = <<>> THEN 0
    ELSE ( IF Head(order_items).product_id = product_id
              THEN int(Head(order_items).quantity).value ELSE 0 )
         + TotalOrdered(Tail(order_items), product_id)

\* C31: place_order_handler is all-or-nothing: when an item is rejected no
\* order is saved and no stock changes; otherwise exactly one order is saved,
\* its items all belong to its one business_id, and the stock of each product
\* goes down by the total quantity ordered of it, nothing else changing.
C31_OrderAllOrNothing ==
    [][ ( /\ request'.name = "place_order"
          /\ CustomerAccepted(request'.customer_phone)
          /\ request'.items # <<>> ) =>
          \A order_items \in { request'.items } :
             IF \E i \in 1..Len(order_items) : ItemRejected(products, order_items, i)
                THEN /\ orders' = orders
                     /\ products' = products
                     /\ ~reply'.success
                ELSE /\ Len(orders') = Len(orders) + 1
                     /\ SubSeq(orders', 1, Len(orders)) = orders
                     /\ reply'.success
                     /\ Len(orders'[Len(orders')].items) = Len(order_items)
                     /\ \A k \in 1..Len(order_items) :
                           /\ orders'[Len(orders')].items[k].product_id = order_items[k].product_id
                           /\ get_product_by_id(products, order_items[k].product_id)[1].business_id =
                                 orders'[Len(orders')].business_id
                     /\ Len(products') = Len(products)
                     /\ \A p \in 1..Len(products) :
                           products'[p] =
                              [products[p] EXCEPT
                                  !.stock = @ - TotalOrdered(order_items, products[p].id),
                                  !.updated_at = products'[p].updated_at] ]_vars

\* C31 witness: an order of three and three of product 1 was placed and saved
\* as the only order, with both items.
C31_OrderOfTwoItemsSaved ==
    /\ request.name = "place_order"
    /\ reply.success
    /\ Len(request.items) = 2
    /\ Len(orders) = 1
    /\ Len(orders[1].items) = 2
    /\ orders[1].business_id = "biz_a"

-----------------------------------------------------------------------------
(* Properties of the payment handlers when a write fails                   *)

\* C32: an initiate call that returns success=False leaves the orders as
\* they were and adds no payment record; when the payments write fails the
\* order's status is not set to payment_pending.
C32_FailedInitiateChangesNothing ==
    [][ ( op'.name = "initiate" /\ ~result'.success ) =>
          /\ orders' = orders
          /\ payments' = payments ]_vars

\* C32 witness: an initiate call for a pending order has answered
\* database_error, and the order is still pending with no payment stored.
C32_WriteFailedOnInitiate ==
    /\ op.name = "initiate"
    /\ result.error_type = "database_error"
    /\ payments = <<>>
    /\ \E i \in 1..Len(orders) : orders[i].id = op.order_id /\ orders[i].status = "pending"

\* The stored payment a call names, if there is one.
StoredPayment(payment_id) == payments[PaymentIndex(payments, payment_id)]

\* C33: complete and cancel report success only if the payment's new status
\* was stored, and no order is left with payment_status completed and status
\* confirmed while its payment is still pending.
C33_SuccessOnlyIfStored ==
    /\ ( op.name \in {"complete", "cancel"} /\ result.success ) =>
          StoredPayment(op.payment_id).status = result.data[1].status
    /\ \A i \in 1..Len(orders) :
          ( orders[i].payment_status = "completed" /\ orders[i].status = "confirmed" ) =>
             StoredPayment(orders[i].payment_id[1]).status # "pending"

\* C34: with the handlers run one at a time, an order has payment_status
\* completed only if its payment_id names a stored payment that is completed
\* and is a payment of that order, and an order is confirmed only together
\* with payment_status completed.
C34_PaidOrderHasCompletedPayment ==
    \A i \in 1..Len(orders) :
       /\ orders[i].payment_status = "completed" =>
             /\ ~IsNone(orders[i].payment_id)
             /\ PaymentIndex(payments, orders[i].payment_id[1]) # 0
             /\ StoredPayment(orders[i].payment_id[1]).status = "completed"
             /\ StoredPayment(orders[i].payment_id[1]).order_id = orders[i].id
       /\ orders[i].status = "confirmed" => orders[i].payment_status = "completed"

\* The largest number n for which PAY followed by n, padded to three digits,
\* is a stored payment_id; 0 when there is none.
LargestPaymentNumber(pays) ==
    SetMax({ n \in 1..(MaxPayments + 1) :
                \E i \in 1..Len(pays) : pays[i].payment_id = FormatPaymentId(n) })

\* C35: a successful initiate or retry returns PAY followed by one more than
\* the largest stored number, an id that no stored record had and that the
\* last record now has; every stored payment_id stays stored, and the stored
\* payment_ids are pairwise distinct.
C35_PaymentIdsSequential ==
    [][ /\ ( op'.name \in {"initiate", "retry"} /\ result'.success ) =>
              /\ result'.payment_id = Some(FormatPaymentId(LargestPaymentNumber(payments) + 1))
              /\ \A i \in 1..Len(payments) : payments[i].payment_id # result'.payment_id[1]
              /\ Len(payments') = Len(payments) + 1
              /\ payments'[Len(payments')].payment_id = result'.payment_id[1]
        /\ \A i \in 1..Len(payments) :
              \E j \in 1..Len(payments') : payments'[j].payment_id = payments[i].payment_id
        /\ \A i, j \in 1..Len(payments') :
              payments'[i].payment_id = payments'[j].payment_id => i = j ]_vars

\* C35 witness: a retry has returned PAY002 as the second stored payment,
\* after an initiate that returned PAY001.
C35_RetryReturnedSecondId ==
    /\ op.name = "retry"
    /\ result.success
    /\ result.payment_id = Some(FormatPaymentId(2))
    /\ Len(payments) = 2
    /\ payments[1].payment_id = FormatPaymentId(1)
    /\ payments[2].payment_id = FormatPaymentId(2)

\* C36: when initiate calls for different unpaid orders have their loads and
\* saves of the payments interleaved and all return success, the store holds
\* the payment record of each of them and their payment_ids differ.
C36_BothPaymentsStored ==
    ( \A c \in Callers : calls[c].pc = "done" /\ calls[c].success ) =>
        /\ \A c \in Callers :
              \E i \in 1..Len(payments) :
                 /\ payments[i].order_id = calls[c].order_id
                 /\ payments[i].payment_id = calls[c].payment_id[1]
        /\ \A c, d \in Callers : calls[c].payment_id = calls[d].payment_id => c = d

-----------------------------------------------------------------------------
(* Properties of an order placed and then paid                             *)

\* C37: an initiate without a phone for an order that place_order_handler
\* created never fails with phone_mismatch or invalid_phone, and the phone
\* stored on every such order is its own normalization.
C37_StoredPhoneIsNormal ==
    /\ ( op.name = "initiate" /\ IsNone(op.customer_phone) ) =>
          result.error_type \notin {"phone_mismatch", "invalid_phone"}
    /\ \A i \in 1..Len(orders) :
          validate_kenyan_phone(orders[i].customer_phone) = Return(orders[i].customer_phone)

-----------------------------------------------------------------------------
(* Properties of a product added and then looked up                        *)

\* The non-empty substrings of a str.
Substrings(s) == { SubSeq(s, i, j) : i \in 1..Len(s), j \in 1..Len(s) } \ { <<>> }

\* The identifier is contained, ignoring case, in the name of one of the
\* business's products other than the one at position new.
NameOfAnother(prods, business_id, identifier, new) ==
    \E i \in 1..Len(prods) :
       /\ i # new
       /\ prods[i].business_id = business_id
       /\ Contains(Lower(prods[i].name), Lower(identifier))

\* The identifier is the id of one of the business's products other than the
\* one at position new.
IdOfAnother(prods, business_id, identifier, new) ==
    \E i \in 1..Len(prods) :
       /\ i # new
       /\ prods[i].business_id = business_id
       /\ prods[i].id = identifier

\* In a step, the successful add_product call has appended one product of
\* the business under the validated name, with an id no stored product had
\* and a sku, and has returned it in data.
AddedAndReturned ==
    /\ Len(products') = Len(products) + 1
    /\ SubSeq(products', 1, Len(products)) = products
    /\ products'[Len(products')].name = NewName
    /\ products'[Len(products')].business_id = request'.business_id
    /\ products'[Len(products')].sku # <<>>
    /\ \A i \in 1..Len(products) : products[i].id # products'[Len(products')].id
    /\ reply'.data = Some(products'[Len(products')])

\* C38 as stated: after a successful add the returned record is the newly
\* stored product, and its name, and every substring of its name that is in
\* no other product name of the business, resolves to it within the business.
C38_AddedThenResolved ==
    [][ ( request'.name = "add_product" /\ reply'.success ) =>
          /\ AddedAndReturned
          /\ \A s \in Substrings(NewName) :
                ~NameOfAnother(products', request'.business_id, s, Len(products')) =>
                   validate_product_reference(products', s, request'.business_id).product =
                      Some(products'[Len(products')]) ]_vars

\* C38 amended: the same for every substring that is in no other product
\* name of the business and is not the id of another product of the business:
\* an all-digit identifier is looked up as an id first.
C38_AddedThenResolvedUnlessId ==
    [][ ( request'.name = "add_product" /\ reply'.success ) =>
          /\ AddedAndReturned
          /\ validate_product_reference(products', NewName, request'.business_id).product =
                Some(products'[Len(products')])
          /\ \A s \in Substrings(NewName) :
                ( /\ ~NameOfAnother(products', request'.business_id, s, Len(products'))
                  /\ ~IdOfAnother(products', request'.business_id, s, Len(products')) ) =>
                   validate_product_reference(products', s, request'.business_id).product =
                      Some(products'[Len(products')]) ]_vars

\* C38 witness: 'tv 2' has been added to biz_b beside its product with id 2,
\* and "tv" resolves to the new product while "2" resolves to the other.
C38_AddedBesideId2 ==
    /\ request.name = "add_product"
    /\ request.business_id = "biz_b"
    /\ reply.success
    /\ reply.data[1].name = Lower(Tv2)
    /\ validate_product_reference(products, <<"t", "v">>, "biz_b").product = reply.data
    /\ validate_product_reference(products, <<"2">>, "biz_b").exists
    /\ validate_product_reference(products, <<"2">>, "biz_b").product # reply.data

\* C39: a fully valid record for an existing business whose name equals,
\* ignoring case, the name of no product stored for that business is added
\* successfully.
C39_OnlyExactDuplicatesRefused ==
    [][ ( /\ request'.name = "add_product"
          /\ request'.business_id \in Businesses
          /\ ~RecordValidation.raised
          /\ RecordValidation.valid
          /\ Named(products, request'.business_id, NewName) = {} ) =>
              /\ reply'.success
              /\ Len(products') = Len(products) + 1
              /\ products'[Len(products')].name = NewName ]_vars

-----------------------------------------------------------------------------
(* Properties of show_products_handler                                     *)

\* In a step, the positions of the products of the business the call names.
Mine == { i \in 1..Len(products) : products[i].business_id = request'.business_id }

\* In a step, the call names a category that no product of the business has.
CategoryMiss ==
    /\ request'.category # <<>>
    /\ \A i \in Mine : Lower(products[i].category) # Lower(request'.category)

\* In a step, the call names a search term that is in the name, description
\* or brand of no product that passes the category filter.
SearchMiss ==
    /\ request'.search_term # <<>>
    /\ ~CategoryMiss
    /\ \A i \in Mine :
          ( request'.category = <<>> \/ Lower(products[i].category) = Lower(request'.category) ) =>
             /\ ~Contains(Lower(products[i].name), Lower(request'.search_term))
             /\ ~Contains(Lower(products[i].description), Lower(request'.search_term))
             /\ ~Contains(Lower(products[i].brand), Lower(request'.search_term))

AllSummaries(prods, business_id) ==
    { summary(prods[i]) : i \in { j \in 1..Len(prods) : prods[j].business_id = business_id } }

C29_OnlyActiveListed ==
    ( request.name = "show_products" /\ ~IsNone(reply.data) ) =>
        \A i \in 1..Len(reply.data[1].products) :
            reply.data[1].products[i].status = "active"

-----------------------------------------------------------------------------
(* Properties of ProductValidator and of validate_add_product_request      *)

\* A price that is positive yet above 10,000,000 or below 50.
SoftPrice(price) ==
    /\ ~float(price).raised
    /\ float(price).value > 0
    /\ ( float(price).value > 10000000 \/ float(price).value < 50 )

\* A stock of 0 or above 10,000.
SoftStock(stock) ==
    /\ ~int(stock).raised
    /\ ( int(stock).value = 0 \/ int(stock).value > 10000 )

\* The record is accepted once its price and stock are unremarkable ones.
OtherwiseValid(f) ==
    /\ ~float(f.price).raised /\ float(f.price).value > 0
    /\ ~int(f.stock).raised /\ int(f.stock).value >= 0
    /\ validate_add_product_request([f EXCEPT !.price = Number(100), !.stock = Number(5)]).valid

\* C30: warnings never block and errors always do: a verdict on a record is
\* valid exactly when its errors list is empty, and a price above 10,000,000
\* or below 50, a stock of 0 or above 10,000, gives a warning only, so that
\* validate_price and validate_stock accept it and an otherwise valid record
\* is accepted by validate_add_product_request, with the warning.
C30_WarningsNeverBlock ==
    /\ ( request.name = "validate_add_product_request" /\ reply.error_type # "missing_fields" ) =>
          ( reply.valid <=> reply.errors = <<>> )
    /\ ( request.name = "validate_price" /\ SoftPrice(request.fields.price) ) =>
          reply.valid /\ ~IsNone(reply.warning)
    /\ ( request.name = "validate_stock" /\ SoftStock(request.fields.stock) ) =>
          reply.valid /\ ~IsNone(reply.warning)
    /\ ( /\ request.name = "validate_add_product_request"
         /\ OtherwiseValid(request.fields)
         /\ ( SoftPrice(request.fields.price) \/ SoftStock(request.fields.stock) ) ) =>
          reply.valid /\ reply.warnings # <<>>

-----------------------------------------------------------------------------
(* Properties of validate_kenyan_phone                                     *)

Local07 == <<"0", "7">>

Local01 == <<"0", "1">>

Country == <<"2", "5", "4">>

\* What the claim's case analysis gives for the str s.
Expected(s) ==
    IF StartsWith(s, Local07) \/ StartsWith(s, Local01)
        THEN Return(PlusPrefix \o Tail(s))
    ELSE IF StartsWith(s, Country) THEN Return(<<"+">> \o s)
    ELSE IF StartsWith(s, PlusPrefix) THEN Return(RemoveSpacesAndHyphens(s))
    ELSE Raise

Normalized == ~IsNone(phone_out)

\* Total and idempotent: the call returns a str beginning +254 or raises, and
\* the function applied to an accepted result returns that result.
TotalAndIdempotent ==
    /\ Normalized /\ ~phone_out[1].raised =>
          StartsWith(phone_out[1].value, PlusPrefix)
    /\ ~IsNone(phone_again) => phone_again = phone_out

\* C8 as stated: the case analysis is on the input str itself.
C8_CasesOnRawInput ==
    /\ Normalized => phone_out[1] = Expected(phone_in)
    /\ TotalAndIdempotent

\* C8: validate_kenyan_phone is total and idempotent, and its case analysis
\* (07/01 -> +254 and the rest, 254 -> + and the input, +254 -> unchanged,
\* anything else rejected) is on the input with its spaces and hyphens
\* removed.
C8_CasesOnStrippedInput ==
    /\ Normalized => phone_out[1] = Expected(RemoveSpacesAndHyphens(phone_in))
    /\ TotalAndIdempotent

\* C8 witness: "07-1" was accepted as "+25471", and normalizing that again
\* gave the same str.
C8_HyphenatedAccepted ==
    /\ phone_in = <<"0", "7", "-", "1">>
    /\ phone_out = Some(Return(<<"+", "2", "5", "4", "7", "1">>))
    /\ phone_again = phone_out

====
